---- MODULE Spec2Model ----
(***************************************************************************)
(* Project / task management REST API (Express controllers over Mongoose   *)
(* models).  The state is the document store (projects, tasks), the clock  *)
(* and the response to the last request.  Every controller is one action;  *)
(* the Mongoose save path (validation of every path of the document, then  *)
(* the schema's pre('save') hook, then the write) is part of the action.   *)
(*                                                                         *)
(* Abstractions: time is counted in days (new Date() is `today`); a        *)
(* document's text fields (title, description, tags, priority, category)   *)
(* carry no policy and are left out; an optional value is the empty        *)
(* sequence (undefined / null) or a one-element sequence.                  *)
(***************************************************************************)
EXTENDS Integers, Sequences, FiniteSets, TLC

VARIABLES today, projects, tasks, resp, accounts, signups, authed, handled,
          pending, sessions

vars ==
    <<today, projects, tasks, resp, accounts, signups, authed, handled,
      pending, sessions>>

\* what the project and task controllers never touch: the user collection,
\* the signups in flight, the outcome of the authentication middleware, the
\* outcome of the error handler, the project and task requests that are
\* between two awaits, and the accounts' credentials
aux == <<accounts, signups, authed, handled, pending, sessions>>

db == <<projects, tasks>>

\* ------------------------------------------------------------------ bounds
MaxDay == 1
MaxTasks == 1
MaxTasksCascade == 2
MaxTasksDerive == 1
MaxProjects == 1
MaxProjectsCascade == 2
MaxTeam == 1
MaxComments == 1
MaxSignups == 2
MaxProjectsStats == 2
MaxTasksStats == 1
MaxPending == 2
MaxTeamRace == 2
MaxTasksRace == 1
MaxTasksList == 2

\* ------------------------------------------------------------ value spaces
Users == {"u1", "u2"}
\* an account whose isActive flag is false: never a requester (protect), but
\* a possible assignedTo / userId value of a request body
InactiveUser == "u9"
TaskStatuses == {"Todo", "In Progress", "Done"}
ProjectStatuses == {"Planning", "In Progress", "On Hold", "Completed", "Cancelled"}

None == <<>>
Some(v) == <<v>>
IsSet(o) == o # <<>>
Val(o) == o[1]
Opt(S) == {None} \cup {Some(v) : v \in S}

SeqsUpTo(S, n) == UNION {[1..k -> S] : k \in 0..n}
Range(s) == {s[i] : i \in 1..Len(s)}

\* _id of the stored documents: the position in the collection
ProjectIds == 1..Len(projects)
TaskIds == 1..Len(tasks)

\* ------------------------------------------------------------ the response
Response(op, u, p, t, status, code) ==
    [op |-> op, user |-> u, pid |-> p, tid |-> t, status |-> status,
     code |-> code, tasks |-> {}, hookIn |-> None, member |-> None,
     stats |-> None, ignored |-> {}]

Idle == Response("none", "none", 0, 0, 0, "NONE")

\* ------------------------------------------------------- access predicates
isTeamMember(p, u) == \E i \in 1..Len(p.teamMembers) : p.teamMembers[i] = u

\* slip: the owner check also lets team members through
isOwnerOrMember(p, u) == p.owner = u \/ isTeamMember(p, u)

\* project.owner.toString() === userId.toString()
isOwner(p, u) == p.owner = u

\* slip: teamMembers.every(...) for teamMembers.some(...)
hasAccessEvery(p, u) ==
    isOwner(p, u) \/ \A i \in 1..Len(p.teamMembers) : p.teamMembers[i] = u

\* getProject / getTask / createTask / addComment: owner or team member
hasAccess(p, u) == isOwner(p, u) \/ isTeamMember(p, u)

\* slip: the assignee is left out of the update check
canUpdateNoAssignee(p, t, u) == isOwner(p, u) \/ t.createdBy = u

\* updateTask: project owner, task creator or assigned user
canUpdate(p, t, u) == isOwner(p, u) \/ t.createdBy = u \/ t.assignedTo = u

\* deleteTask: project owner or task creator
canDelete(p, t, u) == isOwner(p, u) \/ t.createdBy = u

\* User.findById(id) && user.isActive
isActiveUser(id) == id \in Users /\ id \notin sessions.deactivated

\* ------------------------------------------------------------ schema hooks
\* slip: the Planning branch of the hook is missing
projectPreSaveNoPlanning(p) ==
    LET q == IF p.status = "Completed" /\ p.progress < 100
                 THEN [p EXCEPT !.progress = 100]
             ELSE p
    IN  IF q.isArchived /\ ~IsSet(q.archivedAt)
            THEN [q EXCEPT !.archivedAt = Some(today)]
        ELSE IF ~q.isArchived /\ IsSet(q.archivedAt)
            THEN [q EXCEPT !.archivedAt = None]
        ELSE q

\* slip: the two negations of the archive block changed places
projectPreSaveSwapped(p) ==
    LET q == IF p.status = "Completed" /\ p.progress < 100
                 THEN [p EXCEPT !.progress = 100]
             ELSE IF p.status = "Planning" /\ p.progress > 0
                 THEN [p EXCEPT !.progress = 0]
             ELSE p
    IN  IF ~q.isArchived /\ ~IsSet(q.archivedAt)
            THEN [q EXCEPT !.archivedAt = Some(today)]
        ELSE IF q.isArchived /\ IsSet(q.archivedAt)
            THEN [q EXCEPT !.archivedAt = None]
        ELSE q

\* projectSchema.pre('save')
projectPreSave(p) ==
    LET q == IF p.status = "Completed" /\ p.progress < 100
                 THEN [p EXCEPT !.progress = 100]
             ELSE IF p.status = "Planning" /\ p.progress > 0
                 THEN [p EXCEPT !.progress = 0]
             ELSE p
    IN  IF q.isArchived /\ ~IsSet(q.archivedAt)
            THEN [q EXCEPT !.archivedAt = Some(today)]
        ELSE IF ~q.isArchived /\ IsSet(q.archivedAt)
            THEN [q EXCEPT !.archivedAt = None]
        ELSE q

\* schema validators of a project (progress min / max); run before the hook
projectValidate(p) == p.progress >= 0 /\ p.progress <= 100

\* taskSchema.dueDate.validate: not before the start of the current day
dueDateValidator(value) == value >= today

\* schema validators of a task; Mongoose runs them on every path of the
\* document at each save(), before the pre('save') hook
taskValidate(t) ==
    /\ dueDateValidator(t.dueDate)
    /\ t.progress >= 0 /\ t.progress <= 100

\* slip: Done stamps completedAt but leaves progress alone
taskPreSaveCompletionNoProgress(t, modStatus) ==
    IF modStatus /\ t.status = "Done"
        THEN [t EXCEPT !.completedAt = Some(today)]
    ELSE IF modStatus /\ t.status = "Todo"
        THEN [t EXCEPT !.completedAt = None,
                       !.progress = IF t.progress = 100 THEN 0 ELSE t.progress]
    ELSE t

\* slip: Todo clears completedAt but leaves a progress of 100 alone
taskPreSaveCompletionKeep100(t, modStatus) ==
    IF modStatus /\ t.status = "Done"
        THEN [t EXCEPT !.completedAt = Some(today), !.progress = 100]
    ELSE IF modStatus /\ t.status = "Todo"
        THEN [t EXCEPT !.completedAt = None]
    ELSE t

\* first block of taskSchema.pre('save'): completion date
taskPreSaveCompletion(t, modStatus) ==
    IF modStatus /\ t.status = "Done"
        THEN [t EXCEPT !.completedAt = Some(today), !.progress = 100]
    ELSE IF modStatus /\ t.status = "Todo"
        THEN [t EXCEPT !.completedAt = None,
                       !.progress = IF t.progress = 100 THEN 0 ELSE t.progress]
    ELSE t

\* slip: In Progress gets its default whatever the progress was
taskPreSaveProgressAlways25(t, modStatus, modProgress) ==
    IF modStatus /\ ~modProgress
        THEN IF t.status = "Done" THEN [t EXCEPT !.progress = 100]
             ELSE IF t.status = "In Progress" THEN [t EXCEPT !.progress = 25]
             ELSE IF t.status = "Todo" THEN [t EXCEPT !.progress = 0]
             ELSE t
    ELSE t

\* second block of taskSchema.pre('save'): default progress of a status
taskPreSaveProgress(t, modStatus, modProgress) ==
    IF modStatus /\ ~modProgress
        THEN IF t.status = "Done" THEN [t EXCEPT !.progress = 100]
             ELSE IF t.status = "In Progress" /\ t.progress = 0
                 THEN [t EXCEPT !.progress = 25]
             ELSE IF t.status = "Todo" THEN [t EXCEPT !.progress = 0]
             ELSE t
    ELSE t

\* taskSchema.pre('save'); modStatus, modProgress are isModified('status'),
\* isModified('progress') on entry; an assignment made by the first block
\* that changes progress marks it modified for the second
taskPreSave(t, modStatus, modProgress) ==
    LET a == taskPreSaveCompletion(t, modStatus)
    IN  taskPreSaveProgress(a, modStatus, modProgress \/ a.progress # t.progress)

\* slip: Task.updateOne for Task.updateMany (the first match only)
archiveOneTaskOf(ts, p) ==
    LET hits == {i \in 1..Len(ts) : ts[i].project = p}
    IN  [i \in 1..Len(ts) |->
            IF i \in hits /\ \A j \in hits : i <= j
                THEN [ts[i] EXCEPT !.isArchived = TRUE] ELSE ts[i]]

\* Task.updateMany({project: projectId}, {isArchived: true}): no hook, no
\* validation
archiveTasksOf(ts, p) ==
    [i \in 1..Len(ts) |->
        IF ts[i].project = p THEN [ts[i] EXCEPT !.isArchived = TRUE] ELSE ts[i]]

\* ------------------------------------------------------- requests in flight
\* the signup requests the server may be handling at the same time
Requests == 1..MaxSignups

\* no signup request in this slot
Waiting ==
    [pc |-> "waiting", body |-> None, status |-> 0, code |-> "NONE",
     token |-> FALSE]

\* no request has gone through the authentication middleware yet
NoRequest == [route |-> "none"]

\* no error has been handed to the error handler yet
NoError == [env |-> "none"]

\* the project and task requests the server may be handling at the same time
Slots == 1..MaxPending

\* no project or task request in this slot
IdleSlot ==
    [op |-> "none", pc |-> "idle", user |-> "none", pid |-> 0, tid |-> 0,
     body |-> None, loaded |-> None, status |-> 0, code |-> "NONE"]

\* the accounts that can log in, and the passwords a request may carry:
\* two of the minimum length and one that is shorter
LoginUsers == {"u1", InactiveUser}
Passwords == {"pw1", "pw2", "short"}

\* the clock of the tokens, the accounts whose isActive flag was cleared in
\* the collection, the stored passwords and departments, the tokens issued
\* so far
NoSessions ==
    [now |-> 0, deactivated |-> {}, password |-> [u \in LoginUsers |-> "pw1"],
     department |-> [u \in LoginUsers |-> None], issued |-> {}]

\* ------------------------------------------------------------------- Init
Init ==
    /\ today = 0
    /\ projects = <<>>
    /\ tasks = <<>>
    /\ resp = Idle
    /\ accounts = {}
    /\ signups = [r \in Requests |-> Waiting]
    /\ authed = NoRequest
    /\ handled = NoError
    /\ pending = [s \in Slots |-> IdleSlot]
    /\ sessions = NoSessions

\* the clock moves to the next day
AdvanceDay ==
    /\ UNCHANGED aux
    /\ /\ today < MaxDay
       /\ today' = today + 1
       /\ resp' = Idle
       /\ UNCHANGED db

\* ------------------------------------------------------ project controller
Reject(op, u, p, t, status, code) ==
    /\ resp' = Response(op, u, p, t, status, code)
    /\ UNCHANGED <<today, projects, tasks>>

\* User.find({_id: {$in: userIds}, isActive: true}).length === userIds.length
teamMembersValid(team) ==
    Cardinality({m \in Range(team) : isActiveUser(m)}) = Len(team)

\* createProject; body = [title, status, teamMembers]
createProject(u, body) ==
    IF ~body.title
        THEN Reject("createProject", u, 0, 0, 400, "MISSING_TITLE")
    ELSE IF Len(body.teamMembers) > 0 /\ ~teamMembersValid(body.teamMembers)
        THEN Reject("createProject", u, 0, 0, 400, "INVALID_TEAM_MEMBERS")
    ELSE LET doc == [owner |-> u,
                     status |-> IF IsSet(body.status) THEN Val(body.status)
                                ELSE "Planning",
                     progress |-> 0,
                     teamMembers |-> body.teamMembers,
                     isArchived |-> FALSE,
                     archivedAt |-> None]
         IN  /\ projects' = Append(projects, projectPreSave(doc))
             /\ resp' = Response("createProject", u, Len(projects) + 1, 0, 201, "OK")
             /\ UNCHANGED <<today, tasks>>

\* the fields of a request body that the allowedFields loop passes over
ignoredFields(body, allowed) ==
    {f \in DOMAIN body : IsSet(body[f]) /\ f \notin allowed}

\* slip: owner is listed among the fields a request may set
allowedProjectFieldsWithOwner == {"status", "teamMembers", "progress", "owner"}

\* allowedFields of updateProject (of the fields the model keeps)
allowedProjectFields == {"status", "teamMembers", "progress"}

\* the allowedFields loop of updateProject: a field of the body is assigned
\* when it is listed and not undefined; body = [status, progress,
\* teamMembers] and whatever else the request carries
applyProjectUpdate(p, body) ==
    [f \in DOMAIN p |->
        IF f \in allowedProjectFields /\ f \in DOMAIN body /\ IsSet(body[f])
            THEN Val(body[f]) ELSE p[f]]

\* updateProject
updateProject(u, p, body) ==
    IF p \notin ProjectIds
        THEN Reject("updateProject", u, p, 0, 404, "PROJECT_NOT_FOUND")
    ELSE IF ~isOwner(projects[p], u)
        THEN Reject("updateProject", u, p, 0, 403, "ACCESS_DENIED")
    ELSE IF IsSet(body.teamMembers) /\ Len(Val(body.teamMembers)) > 0
            /\ ~teamMembersValid(Val(body.teamMembers))
        THEN Reject("updateProject", u, p, 0, 400, "INVALID_TEAM_MEMBERS")
    ELSE LET doc == applyProjectUpdate(projects[p], body) IN
         IF ~projectValidate(doc)
             THEN Reject("updateProject", u, p, 0, 400, "VALIDATION_ERROR")
         ELSE /\ projects' = [projects EXCEPT ![p] = projectPreSave(doc)]
              /\ resp' = [Response("updateProject", u, p, 0, 200, "OK")
                          EXCEPT !.hookIn = Some(doc.progress),
                                 !.ignored = ignoredFields(body, allowedProjectFields)]
              /\ UNCHANGED <<today, tasks>>

\* deleteProject: archive the project, then its tasks
deleteProject(u, p) ==
    IF p \notin ProjectIds
        THEN Reject("deleteProject", u, p, 0, 404, "PROJECT_NOT_FOUND")
    ELSE IF ~isOwner(projects[p], u)
        THEN Reject("deleteProject", u, p, 0, 403, "ACCESS_DENIED")
    ELSE /\ projects' = [projects EXCEPT ![p] =
                projectPreSave([@ EXCEPT !.isArchived = TRUE,
                                         !.archivedAt = Some(today)])]
         /\ tasks' = archiveTasksOf(tasks, p)
         /\ resp' = Response("deleteProject", u, p, 0, 200, "OK")
         /\ UNCHANGED today

\* projectSchema.methods.addTeamMember, without its save
pushTeamMember(p, m) == [p EXCEPT !.teamMembers = Append(@, m)]

\* addTeamMember; newMember is the body's userId
addTeamMember(u, p, newMember) ==
    LET Answer(status, code) ==
            [Response("addTeamMember", u, p, 0, status, code)
             EXCEPT !.member = newMember]
        Refuse(status, code) ==
            /\ resp' = Answer(status, code)
            /\ UNCHANGED <<today, projects, tasks>>
    IN  IF ~IsSet(newMember)
            THEN Refuse(400, "MISSING_USER_ID")
        ELSE IF p \notin ProjectIds
            THEN Refuse(404, "PROJECT_NOT_FOUND")
        ELSE IF ~isOwner(projects[p], u)
            THEN Refuse(403, "ACCESS_DENIED")
        ELSE IF ~isActiveUser(Val(newMember))
            THEN Refuse(400, "INVALID_USER")
        ELSE IF isTeamMember(projects[p], Val(newMember))
            THEN Refuse(400, "DUPLICATE_TEAM_MEMBER")
        ELSE /\ Len(projects[p].teamMembers) < MaxTeam
             /\ projects' = [projects EXCEPT ![p] =
                    projectPreSave(pushTeamMember(@, Val(newMember)))]
             /\ resp' = Answer(200, "OK")
             /\ UNCHANGED <<today, tasks>>

\* projectSchema.methods.removeTeamMember, without its save
filterTeamMember(p, m) ==
    [p EXCEPT !.teamMembers = SelectSeq(@, LAMBDA x : x # m)]

\* removeTeamMember
removeTeamMember(u, p, m) ==
    IF p \notin ProjectIds
        THEN Reject("removeTeamMember", u, p, 0, 404, "PROJECT_NOT_FOUND")
    ELSE IF ~isOwner(projects[p], u)
        THEN Reject("removeTeamMember", u, p, 0, 403, "ACCESS_DENIED")
    ELSE /\ projects' = [projects EXCEPT ![p] =
                projectPreSave(filterTeamMember(@, m))]
         /\ resp' = Response("removeTeamMember", u, p, 0, 200, "OK")
         /\ UNCHANGED <<today, tasks>>

\* getProject
getProject(u, p) ==
    IF p \notin ProjectIds
        THEN Reject("getProject", u, p, 0, 404, "PROJECT_NOT_FOUND")
    ELSE IF ~hasAccess(projects[p], u)
        THEN Reject("getProject", u, p, 0, 403, "ACCESS_DENIED")
    ELSE /\ resp' = [Response("getProject", u, p, 0, 200, "OK") EXCEPT
                        !.tasks = {i \in TaskIds :
                            tasks[i].project = p /\ ~tasks[i].isArchived}]
         /\ UNCHANGED <<today, projects, tasks>>

\* --------------------------------------------------------- task controller
\* slip: taskDueDate <= today, the comparison of the project controller
dueDateNotAfterToday(d) == d <= today

\* taskDueDate < today, today being the start of the current day
dueDateInPast(d) == d < today

\* task.save() of a loaded document whose fields were assigned: validation,
\* the hook, the write.  old is the stored document, new the assigned one.
savedTask(old, new) ==
    taskPreSave(new, new.status # old.status, new.progress # old.progress)

\* createTask; body = [title, assignedTo, project, dueDate, status]
createTask(u, body) ==
    IF ~body.title
        THEN Reject("createTask", u, 0, 0, 400, "MISSING_TITLE")
    ELSE IF ~IsSet(body.assignedTo)
        THEN Reject("createTask", u, 0, 0, 400, "MISSING_ASSIGNED_TO")
    ELSE IF ~IsSet(body.project)
        THEN Reject("createTask", u, 0, 0, 400, "MISSING_PROJECT")
    ELSE IF ~IsSet(body.dueDate)
        THEN Reject("createTask", u, Val(body.project), 0, 400, "MISSING_DUE_DATE")
    ELSE LET p == Val(body.project) IN
         IF p \notin ProjectIds \/ projects[p].isArchived
             THEN Reject("createTask", u, p, 0, 404, "PROJECT_NOT_FOUND")
         ELSE IF ~hasAccess(projects[p], u)
             THEN Reject("createTask", u, p, 0, 403, "ACCESS_DENIED")
         ELSE IF ~isActiveUser(Val(body.assignedTo))
             THEN Reject("createTask", u, p, 0, 400, "INVALID_ASSIGNED_USER")
         ELSE IF dueDateInPast(Val(body.dueDate))
             THEN Reject("createTask", u, p, 0, 400, "INVALID_DUE_DATE")
         ELSE LET doc == [project |-> p,
                          createdBy |-> u,
                          assignedTo |-> Val(body.assignedTo),
                          status |-> IF IsSet(body.status) THEN Val(body.status)
                                     ELSE "Todo",
                          progress |-> 0,
                          completedAt |-> None,
                          dueDate |-> Val(body.dueDate),
                          isArchived |-> FALSE,
                          comments |-> <<>>]
              IN  IF ~taskValidate(doc)
                      THEN Reject("createTask", u, p, 0, 400, "VALIDATION_ERROR")
                  ELSE /\ tasks' = Append(tasks, taskPreSave(doc, TRUE, FALSE))
                       /\ resp' = [Response("createTask", u, p, Len(tasks) + 1,
                                            201, "OK")
                                   EXCEPT !.hookIn = Some(doc.progress)]
                       /\ UNCHANGED <<today, projects>>

\* slip: isArchived is among the fields a request may set
allowedTaskFieldsWithArchived ==
    {"status", "assignedTo", "dueDate", "progress", "isArchived"}

\* allowedFields of updateTask (of the fields the model keeps)
allowedTaskFields == {"status", "assignedTo", "dueDate", "progress"}

\* the allowedFields loop of updateTask; body = [status, progress,
\* assignedTo, dueDate] and whatever else the request carries
applyTaskUpdate(t, body) ==
    [f \in DOMAIN t |->
        IF f \in allowedTaskFields /\ f \in DOMAIN body /\ IsSet(body[f])
            THEN Val(body[f]) ELSE t[f]]

\* updateTask
updateTask(u, t, body) ==
    IF t \notin TaskIds
        THEN Reject("updateTask", u, 0, t, 404, "TASK_NOT_FOUND")
    ELSE LET p == tasks[t].project IN
         IF ~canUpdate(projects[p], tasks[t], u)
             THEN Reject("updateTask", u, p, t, 403, "ACCESS_DENIED")
         ELSE IF IsSet(body.dueDate) /\ dueDateInPast(Val(body.dueDate))
             THEN Reject("updateTask", u, p, t, 400, "INVALID_DUE_DATE")
         ELSE IF IsSet(body.assignedTo) /\ ~isActiveUser(Val(body.assignedTo))
             THEN Reject("updateTask", u, p, t, 400, "INVALID_ASSIGNED_USER")
         ELSE LET doc == applyTaskUpdate(tasks[t], body) IN
              IF ~taskValidate(doc)
                  THEN Reject("updateTask", u, p, t, 400, "VALIDATION_ERROR")
              ELSE /\ tasks' = [tasks EXCEPT ![t] = savedTask(@, doc)]
                   /\ resp' = [Response("updateTask", u, p, t, 200, "OK")
                               EXCEPT !.hookIn = Some(doc.progress),
                                      !.ignored = ignoredFields(body, allowedTaskFields)]
                   /\ UNCHANGED <<today, projects>>

\* deleteTask: soft delete
deleteTask(u, t) ==
    IF t \notin TaskIds
        THEN Reject("deleteTask", u, 0, t, 404, "TASK_NOT_FOUND")
    ELSE LET p == tasks[t].project IN
         IF ~canDelete(projects[p], tasks[t], u)
             THEN Reject("deleteTask", u, p, t, 403, "ACCESS_DENIED")
         ELSE LET doc == [tasks[t] EXCEPT !.isArchived = TRUE] IN
              IF ~taskValidate(doc)
                  THEN Reject("deleteTask", u, p, t, 400, "VALIDATION_ERROR")
              ELSE /\ tasks' = [tasks EXCEPT ![t] = savedTask(@, doc)]
                   /\ resp' = Response("deleteTask", u, p, t, 200, "OK")
                   /\ UNCHANGED <<today, projects>>

\* taskSchema.methods.addComment, without its save
pushComment(t, u) == [t EXCEPT !.comments = Append(@, u)]

\* addComment; content is whether the body carries a non-blank content
addComment(u, t, content) ==
    IF ~content
        THEN Reject("addComment", u, 0, t, 400, "MISSING_CONTENT")
    ELSE IF t \notin TaskIds
        THEN Reject("addComment", u, 0, t, 404, "TASK_NOT_FOUND")
    ELSE LET p == tasks[t].project IN
         IF ~hasAccess(projects[p], u)
             THEN Reject("addComment", u, p, t, 403, "ACCESS_DENIED")
         ELSE LET doc == pushComment(tasks[t], u) IN
              IF ~taskValidate(doc)
                  THEN Reject("addComment", u, p, t, 400, "VALIDATION_ERROR")
              ELSE /\ Len(tasks[t].comments) < MaxComments
                   /\ tasks' = [tasks EXCEPT ![t] = savedTask(@, doc)]
                   /\ resp' = Response("addComment", u, p, t, 201, "OK")
                   /\ UNCHANGED <<today, projects>>

\* getTask
getTask(u, t) ==
    IF t \notin TaskIds
        THEN Reject("getTask", u, 0, t, 404, "TASK_NOT_FOUND")
    ELSE LET p == tasks[t].project IN
         IF ~hasAccess(projects[p], u)
             THEN Reject("getTask", u, p, t, 403, "ACCESS_DENIED")
         ELSE /\ resp' = [Response("getTask", u, p, t, 200, "OK")
                          EXCEPT !.tasks = {t}]
              /\ UNCHANGED <<today, projects, tasks>>

\* Project.find({$or: [{owner}, {'teamMembers.user'}], isArchived: false})
userProjects(u) ==
    {p \in ProjectIds : hasAccess(projects[p], u) /\ ~projects[p].isArchived}

\* the filter getTasks builds from the query q = [status, project,
\* assignedTo, overdue], applied to the stored task t
matchesFilter(u, q, t) ==
    /\ ~t.isArchived
    /\ IF IsSet(q.project) THEN t.project = Val(q.project)
       ELSE t.project \in userProjects(u)
    /\ IF q.overdue THEN t.status # "Done"
       ELSE IsSet(q.status) => t.status = Val(q.status)
    /\ IsSet(q.assignedTo) =>
          t.assignedTo = (IF Val(q.assignedTo) = "me" THEN u ELSE Val(q.assignedTo))
    /\ q.overdue => t.dueDate < today

\* getTasks
getTasks(u, q) ==
    /\ resp' = [Response("getTasks", u, 0, 0, 200, "OK") EXCEPT
                   !.tasks = {i \in TaskIds : matchesFilter(u, q, tasks[i])}]
    /\ UNCHANGED <<today, projects, tasks>>

\* ------------------------------------------------------------ request inputs
\* ids a request may name: the stored documents and one that does not exist
PidInputs == 1..(Len(projects) + 1)
TidInputs == 1..(Len(tasks) + 1)
UserIdInputs == Users \cup {InactiveUser}
DayInputs == 0..MaxDay
ProgressInputs == {0, 50, 100, 150}
TeamInputs == SeqsUpTo(UserIdInputs, MaxTeam)

\* createProject bodies: complete ones, and one without a title
ProjectCreateBodies(statuses, teams) ==
    [title : {TRUE}, status : statuses, teamMembers : teams]
    \cup [title : {FALSE}, status : {None}, teamMembers : {<<>>}]

ProjectUpdateBodies(statuses, progresses, teams) ==
    [status : statuses, progress : progresses, teamMembers : Opt(teams)]

\* createTask bodies: complete ones, and one for each missing required field
TaskCreateBodies(users, statuses) ==
    [title : {TRUE}, assignedTo : {Some(a) : a \in users},
     project : {Some(p) : p \in PidInputs},
     dueDate : {Some(d) : d \in DayInputs}, status : statuses]
    \cup {[title |-> FALSE, assignedTo |-> Some("u1"), project |-> Some(1),
           dueDate |-> Some(today), status |-> None],
          [title |-> TRUE, assignedTo |-> None, project |-> Some(1),
           dueDate |-> Some(today), status |-> None],
          [title |-> TRUE, assignedTo |-> Some("u1"), project |-> None,
           dueDate |-> Some(today), status |-> None],
          [title |-> TRUE, assignedTo |-> Some("u1"), project |-> Some(1),
           dueDate |-> None, status |-> None]}

\* updateTask bodies: status and progress together, or one other field
TaskUpdateBodies(users, statuses, progresses) ==
    [status : statuses, progress : progresses, assignedTo : {None},
     dueDate : {None}]
    \cup [status : {None}, progress : {None},
          assignedTo : {Some(a) : a \in users}, dueDate : {None}]
    \cup [status : {None}, progress : {None}, assignedTo : {None},
          dueDate : {Some(d) : d \in DayInputs}]

TaskQueries(statuses) ==
    [status : statuses, project : Opt(PidInputs),
     assignedTo : {None, Some("me")}, overdue : BOOLEAN]

\* ------------------------------------------------- access-control world
\* every controller and the clock; tasks keep the default status
CreateProject ==
    /\ UNCHANGED aux
    /\ /\ Len(projects) < MaxProjects
       /\ \E u \in Users : \E body \in ProjectCreateBodies({None}, TeamInputs) :
             createProject(u, body)

UpdateProject ==
    /\ UNCHANGED aux
    /\ \E u \in Users, p \in PidInputs :
          \E body \in ProjectUpdateBodies({None}, {None}, TeamInputs) :
             updateProject(u, p, body)

DeleteProject ==
    /\ UNCHANGED aux
    /\ \E u \in Users, p \in PidInputs : deleteProject(u, p)

AddTeamMember ==
    /\ UNCHANGED aux
    /\ \E u \in Users, p \in PidInputs, m \in Opt(UserIdInputs) :
          addTeamMember(u, p, m)

RemoveTeamMember ==
    /\ UNCHANGED aux
    /\ \E u \in Users, p \in PidInputs, m \in Users : removeTeamMember(u, p, m)

GetProject ==
    /\ UNCHANGED aux
    /\ \E u \in Users, p \in PidInputs : getProject(u, p)

CreateTask ==
    /\ UNCHANGED aux
    /\ /\ Len(tasks) < MaxTasks
       /\ \E u \in Users : \E body \in TaskCreateBodies(UserIdInputs, {None}) :
             createTask(u, body)

UpdateTask ==
    /\ UNCHANGED aux
    /\ \E u \in Users, t \in TidInputs :
          \E body \in TaskUpdateBodies(UserIdInputs, {None}, {None}) :
             updateTask(u, t, body)

DeleteTask ==
    /\ UNCHANGED aux
    /\ \E u \in Users, t \in TidInputs : deleteTask(u, t)

AddComment ==
    /\ UNCHANGED aux
    /\ \E u \in Users, t \in TidInputs, content \in BOOLEAN : addComment(u, t, content)

GetTask ==
    /\ UNCHANGED aux
    /\ \E u \in Users, t \in TidInputs : getTask(u, t)

GetTasks ==
    /\ UNCHANGED aux
    /\ \E u \in Users : \E q \in TaskQueries({None}) : getTasks(u, q)

Next ==
    \/ AdvanceDay
    \/ CreateProject
    \/ UpdateProject
    \/ DeleteProject
    \/ AddTeamMember
    \/ RemoveTeamMember
    \/ GetProject
    \/ CreateTask
    \/ UpdateTask
    \/ DeleteTask
    \/ AddComment
    \/ GetTask
    \/ GetTasks

Spec == Init /\ [][Next]_vars

\* ------------------------------------------------- status-derivation world
\* one user who owns the project; task writes carry every status and
\* progress value
Owner == "u1"

CreateProjectD ==
    /\ UNCHANGED aux
    /\ /\ Len(projects) < MaxProjects
       /\ createProject(Owner, [title |-> TRUE, status |-> None, teamMembers |-> <<>>])

CreateTaskD ==
    /\ UNCHANGED aux
    /\ /\ Len(tasks) < MaxTasksDerive
       /\ \E body \in TaskCreateBodies({Owner}, Opt(TaskStatuses)) :
             createTask(Owner, body)

UpdateTaskD ==
    /\ UNCHANGED aux
    /\ \E t \in TaskIds :
          \E body \in TaskUpdateBodies({Owner}, Opt(TaskStatuses), Opt(ProgressInputs)) :
             updateTask(Owner, t, body)

DeleteTaskD ==
    /\ UNCHANGED aux
    /\ \E t \in TaskIds : deleteTask(Owner, t)

AddCommentD ==
    /\ UNCHANGED aux
    /\ \E t \in TaskIds : addComment(Owner, t, TRUE)

DeleteProjectD ==
    /\ UNCHANGED aux
    /\ \E p \in ProjectIds : deleteProject(Owner, p)

NextDerive ==
    \/ CreateProjectD
    \/ CreateTaskD
    \/ UpdateTaskD
    \/ DeleteTaskD
    \/ AddCommentD
    \/ DeleteProjectD

SpecDerive == Init /\ [][NextDerive]_vars

\* ------------------------------------------------------- cascade world
\* several projects without teams and several tasks: archive of a project
CreateProjectC ==
    /\ UNCHANGED aux
    /\ /\ Len(projects) < MaxProjectsCascade
       /\ \E u \in Users :
             createProject(u, [title |-> TRUE, status |-> None, teamMembers |-> <<>>])

CreateTaskC ==
    /\ UNCHANGED aux
    /\ /\ Len(tasks) < MaxTasksCascade
       /\ \E u \in Users, p \in ProjectIds :
             createTask(u, [title |-> TRUE, assignedTo |-> Some(u),
                            project |-> Some(p), dueDate |-> Some(today),
                            status |-> None])

DeleteTaskC ==
    /\ UNCHANGED aux
    /\ \E u \in Users, t \in TaskIds : deleteTask(u, t)

DeleteProjectC ==
    /\ UNCHANGED aux
    /\ \E u \in Users, p \in ProjectIds : deleteProject(u, p)

NextCascade ==
    \/ CreateProjectC
    \/ CreateTaskC
    \/ DeleteTaskC
    \/ DeleteProjectC

SpecCascade == Init /\ [][NextCascade]_vars

\* ------------------------------------------------------- project world
\* project writes with every status and progress value, by the owner and by
\* another user; update bodies may name owner, project and createdBy
CreateProjectP ==
    /\ UNCHANGED aux
    /\ Len(projects) < MaxProjects
    /\ \E u \in Users :
          \E body \in ProjectCreateBodies(Opt(ProjectStatuses), {<<>>}) :
             createProject(u, body)

UpdateProjectP ==
    /\ UNCHANGED aux
    /\ \E u \in Users, p \in ProjectIds :
          \E body \in [status : Opt(ProjectStatuses),
                        progress : Opt(ProgressInputs),
                        teamMembers : {None}, owner : Opt(Users)] :
             updateProject(u, p, body)

AddTeamMemberP ==
    /\ UNCHANGED aux
    /\ \E u \in Users, p \in ProjectIds, m \in Users :
          addTeamMember(u, p, Some(m))

RemoveTeamMemberP ==
    /\ UNCHANGED aux
    /\ \E u \in Users, p \in ProjectIds, m \in Users : removeTeamMember(u, p, m)

DeleteProjectP ==
    /\ UNCHANGED aux
    /\ \E u \in Users, p \in ProjectIds : deleteProject(u, p)

CreateTaskP ==
    /\ UNCHANGED aux
    /\ Len(tasks) < MaxTasks
    /\ \E u \in Users, a \in Users, p \in ProjectIds :
          createTask(u, [title |-> TRUE, assignedTo |-> Some(a),
                         project |-> Some(p), dueDate |-> Some(today),
                         status |-> None])

UpdateTaskP ==
    /\ UNCHANGED aux
    /\ \E u \in Users, t \in TaskIds :
          \E body \in [status : {None}, progress : {None},
                        assignedTo : Opt(Users), dueDate : {None},
                        project : Opt(PidInputs), createdBy : Opt(Users)] :
             updateTask(u, t, body)

NextProject ==
    \/ CreateProjectP
    \/ UpdateProjectP
    \/ AddTeamMemberP
    \/ RemoveTeamMemberP
    \/ DeleteProjectP
    \/ CreateTaskP
    \/ UpdateTaskP

SpecProject == Init /\ [][NextProject]_vars

\* ------------------------------------------------------------ signup world
\* password.length < 6
MinPasswordLength == 6

EmailNames == {"ann", "bob"}

\* an email address as a request writes it: its letters, whether some of
\* them are upper case, whether blanks surround it
EmailInputs == [name : EmailNames, upper : BOOLEAN, padded : BOOLEAN]

\* slip: trim() without toLowerCase(), and no lowercase setter
normalizeEmailTrimOnly(e) == [name |-> e.name, upper |-> e.upper, padded |-> FALSE]

\* email.toLowerCase().trim(), and the schema's lowercase / trim setters
normalizeEmail(e) == [name |-> e.name, upper |-> FALSE, padded |-> FALSE]

\* new RegExp('^' + email + '$', 'i') against a stored address: letters
\* without regard to case, blanks as they are
emailRegexMatches(e, stored) == e.name = stored.name /\ e.padded = stored.padded

\* User.findByEmail(email): is a document found
findByEmail(e) == \E a \in accounts : emailRegexMatches(e, a)

\* signup bodies; password is the length of the password (0: none)
SignupBodies ==
    [name : {TRUE}, email : {Some(e) : e \in EmailInputs},
     password : {MinPasswordLength}]
    \cup [name : {FALSE}, email : {Some(e) : e \in EmailInputs},
          password : {MinPasswordLength}]
    \cup [name : {TRUE}, email : {Some([name |-> n, upper |-> FALSE, padded |-> FALSE]) :
                                     n \in EmailNames},
          password : {0, MinPasswordLength - 1}]
    \cup {[name |-> TRUE, email |-> None, password |-> MinPasswordLength]}

\* the answer of a signup
Answered(body, status, code, token) ==
    [pc |-> "done", body |-> Some(body), status |-> status, code |-> code,
     token |-> token]

\* signup, up to the await of User.findByEmail
signupReceive(r, body) ==
    /\ signups[r].pc \in {"waiting", "done"}
    /\ signups' = [signups EXCEPT ![r] =
          IF ~body.name \/ ~IsSet(body.email) \/ body.password = 0
              THEN Answered(body, 400, "MISSING_FIELDS", FALSE)
          ELSE [Waiting EXCEPT !.pc = "lookup", !.body = Some(body)]]
    /\ UNCHANGED <<today, projects, tasks, resp, accounts, authed, handled,
                 pending, sessions>>

\* signup, from the result of User.findByEmail to the await of User.create
signupLookup(r) ==
    /\ signups[r].pc = "lookup"
    /\ LET body == Val(signups[r].body) IN
       signups' = [signups EXCEPT ![r] =
          IF findByEmail(Val(body.email))
              THEN Answered(body, 400, "EMAIL_EXISTS", FALSE)
          ELSE IF body.password < MinPasswordLength
              THEN Answered(body, 400, "INVALID_PASSWORD", FALSE)
          ELSE [@ EXCEPT !.pc = "create"]]
    /\ UNCHANGED <<today, projects, tasks, resp, accounts, authed, handled,
                 pending, sessions>>

\* signup, User.create (the unique index on email) and the response
signupCreate(r) ==
    /\ signups[r].pc = "create"
    /\ LET body == Val(signups[r].body)
           email == normalizeEmail(Val(body.email))
       IN  IF email \in accounts
               THEN /\ signups' = [signups EXCEPT ![r] =
                          Answered(body, 400, "DUPLICATE_EMAIL", FALSE)]
                    /\ UNCHANGED accounts
           ELSE /\ accounts' = accounts \cup {email}
                /\ signups' = [signups EXCEPT ![r] = Answered(body, 201, "OK", TRUE)]
    /\ UNCHANGED <<today, projects, tasks, resp, authed, handled,
                 pending, sessions>>

SignupReceive == \E r \in Requests : \E body \in SignupBodies : signupReceive(r, body)

SignupLookup == \E r \in Requests : signupLookup(r)

SignupCreate == \E r \in Requests : signupCreate(r)

NextSignup ==
    \/ SignupReceive
    \/ SignupLookup
    \/ SignupCreate

SpecSignup == Init /\ [][NextSignup]_vars

\* ---------------------------------------------------- authentication world
\* the routes registered behind router.use(protect)
ProtectedRoutes ==
    {"GET /projects/stats", "GET /projects", "POST /projects",
     "GET /projects/:id", "PUT /projects/:id", "DELETE /projects/:id",
     "POST /projects/:id/team-members",
     "DELETE /projects/:id/team-members/:userId",
     "GET /tasks/my-tasks", "GET /tasks/overdue", "GET /tasks", "POST /tasks",
     "GET /tasks/:id", "PUT /tasks/:id", "DELETE /tasks/:id",
     "POST /tasks/:id/comments",
     "GET /auth/me", "PUT /auth/me", "PUT /auth/change-password",
     "POST /auth/logout", "GET /auth/users"}

\* the user a token was issued for: an active account, a deactivated one,
\* one that is no longer in the collection
DeletedUser == "u0"
TokenSubjects == {"u1", InactiveUser, DeletedUser}

\* what follows the scheme in the header: not a JWT at all, or a JWT with a
\* good or bad signature, expired or not
Tokens ==
    {[kind |-> "garbage", signed |-> FALSE, expired |-> FALSE, id |-> DeletedUser]}
    \cup [kind : {"jwt"}, signed : BOOLEAN, expired : BOOLEAN, id : TokenSubjects]

\* req.headers.authorization: none, or a scheme and what split(' ')[1] gives
AuthHeaders == Opt([scheme : {"Bearer", "Basic"}, token : Opt(Tokens)])

\* jwt.verify(token, secret): the payload's id, or the name of the error
jwtVerify(token) ==
    IF ~IsSet(token) THEN [error |-> "JsonWebTokenError", id |-> None]
    ELSE IF Val(token).kind # "jwt" THEN [error |-> "JsonWebTokenError", id |-> None]
    ELSE IF ~Val(token).signed THEN [error |-> "JsonWebTokenError", id |-> None]
    ELSE IF Val(token).expired THEN [error |-> "TokenExpiredError", id |-> None]
    ELSE [error |-> "none", id |-> Some(Val(token).id)]

\* the inner catch of protect: the 401 for an error name
verifyFailure(name) ==
    [status |-> 401,
     code |-> IF name = "TokenExpiredError" THEN "TOKEN_EXPIRED"
              ELSE IF name = "JsonWebTokenError" THEN "INVALID_TOKEN"
              ELSE "AUTH_FAILED"]

\* what protect did: the responses it sent, the times it called next, req.user
Outcome(sent, next, user, returned) ==
    [sent |-> sent, next |-> next, user |-> user, returned |-> returned]

\* the Bearer branch of protect; dbUp: User.findById does not throw
protectBearer(token, dbUp) ==
    LET decoded == jwtVerify(token) IN
    IF decoded.error # "none"
        THEN Outcome(<<verifyFailure(decoded.error)>>, 0, None, TRUE)
    ELSE IF ~dbUp
        THEN Outcome(<<verifyFailure("MongoNetworkError")>>, 0, None, TRUE)
    ELSE IF Val(decoded.id) = DeletedUser
        THEN Outcome(<<[status |-> 401, code |-> "NONE"]>>, 0, None, TRUE)
    ELSE IF ~isActiveUser(Val(decoded.id))
        THEN Outcome(<<[status |-> 401, code |-> "NONE"]>>, 0, decoded.id, TRUE)
    ELSE Outcome(<<>>, 1, decoded.id, FALSE)

\* protect
protect(header, dbUp) ==
    LET bearer == IsSet(header) /\ Val(header).scheme = "Bearer"
        token == IF bearer THEN Val(header).token ELSE None
        inner == IF bearer THEN protectBearer(token, dbUp)
                 ELSE Outcome(<<>>, 0, None, FALSE)
    IN  IF ~inner.returned /\ ~IsSet(token)
            THEN [inner EXCEPT !.sent = Append(@, [status |-> 401, code |-> "NO_TOKEN"]),
                               !.returned = TRUE]
        ELSE inner

\* a request to a protected route goes through protect
Protect ==
    /\ \E route \in ProtectedRoutes, header \in AuthHeaders, dbUp \in BOOLEAN :
          authed' = [route |-> route, header |-> header, dbUp |-> dbUp,
                     out |-> protect(header, dbUp)]
    /\ UNCHANGED <<today, projects, tasks, resp, accounts, signups, handled,
                 pending, sessions>>

NextAuth == Protect

SpecAuth == Init /\ [][NextAuth]_vars

\* ------------------------------------------------------- statistics world
\* stat._id.toLowerCase().replace(/\s+/g, '')
statusKey(status) ==
    CASE status = "Planning" -> "planning"
      [] status = "In Progress" -> "inprogress"
      [] status = "On Hold" -> "onhold"
      [] status = "Completed" -> "completed"
      [] status = "Cancelled" -> "cancelled"
      [] status = "Todo" -> "todo"
      [] status = "Done" -> "done"

\* the counters of stats.projects and of stats.tasks besides total
ProjectCounters == {"planning", "inProgress", "onHold", "completed", "cancelled"}
TaskCounters == {"todo", "inProgress", "done"}

\* {$group: {_id: '$status', count: {$sum: 1}}} over the documents docs of
\* the collection coll: one group for each status that occurs
groupByStatus(coll, docs) ==
    [st \in {coll[i].status : i \in docs} |->
        Cardinality({i \in docs : coll[i].status = st})]

RECURSIVE sumCounts(_, _)
\* total += stat.count over the groups sts
sumCounts(groups, sts) ==
    IF sts = {} THEN 0
    ELSE LET st == CHOOSE x \in sts : TRUE
         IN  groups[st] + sumCounts(groups, sts \ {st})

\* the forEach over the groups: total grows by every count, a counter is
\* set when the key made from the status is one of the counters
formatStats(groups, counters) ==
    [k \in counters \cup {"total"} |->
        IF k = "total" THEN sumCounts(groups, DOMAIN groups)
        ELSE IF \E st \in DOMAIN groups : statusKey(st) = k
            THEN groups[CHOOSE st \in DOMAIN groups : statusKey(st) = k]
        ELSE 0]

\* $match of the project aggregate: owner or team member, not archived
statsProjects(u) ==
    {p \in ProjectIds :
        (projects[p].owner = u \/ isTeamMember(projects[p], u))
        /\ ~projects[p].isArchived}

\* $lookup and $match of the task aggregate: the project's owner is the
\* requester, the task is not archived
statsTasks(u) ==
    {t \in TaskIds :
        /\ tasks[t].project \in ProjectIds
        /\ projects[tasks[t].project].owner = u
        /\ ~tasks[t].isArchived}

\* getProjectStats
getProjectStats(u) ==
    /\ resp' = [Response("getProjectStats", u, 0, 0, 200, "OK") EXCEPT
                   !.stats = Some(
                      [projects |-> formatStats(groupByStatus(projects, statsProjects(u)),
                                                ProjectCounters),
                       tasks |-> formatStats(groupByStatus(tasks, statsTasks(u)),
                                             TaskCounters)])]
    /\ UNCHANGED <<today, projects, tasks>>

\* projects of one owner, with or without the other user in the team, in
\* every status; tasks in every status
CreateProjectS ==
    /\ UNCHANGED aux
    /\ Len(projects) < MaxProjectsStats
    /\ \E body \in ProjectCreateBodies(Opt(ProjectStatuses), {<<>>, <<"u2">>}) :
          createProject(Owner, body)

DeleteProjectS ==
    /\ UNCHANGED aux
    /\ \E p \in ProjectIds : deleteProject(Owner, p)

CreateTaskS ==
    /\ UNCHANGED aux
    /\ Len(tasks) < MaxTasksStats
    /\ \E u \in Users, p \in ProjectIds, st \in Opt(TaskStatuses) :
          createTask(u, [title |-> TRUE, assignedTo |-> Some(u),
                         project |-> Some(p), dueDate |-> Some(today),
                         status |-> st])

DeleteTaskS ==
    /\ UNCHANGED aux
    /\ \E t \in TaskIds : deleteTask(Owner, t)

GetProjectStats ==
    /\ UNCHANGED aux
    /\ \E u \in Users : getProjectStats(u)

NextStats ==
    \/ CreateProjectS
    \/ DeleteProjectS
    \/ CreateTaskS
    \/ DeleteTaskS
    \/ GetProjectStats

SpecStats == Init /\ [][NextStats]_vars

\* ------------------------------------------------------ error handler world
\* process.env.NODE_ENV
Envs == {"development", "production", "test"}

\* err.name, err.code, err.statusCode and err.message of the errors that
\* reach the handler; "E11000" is the duplicate key code 11000
ErrNames ==
    {"Error", "CastError", "ValidationError", "JsonWebTokenError",
     "TokenExpiredError", "MongoNetworkError", "MongooseServerSelectionError"}
ErrCodes == Opt({"E11000", "LIMIT_FILE_SIZE", "LIMIT_UNEXPECTED_FILE", "APP_CODE"})
ErrStatusCodes == Opt({400, 404, 429})
ErrMessages == {"", "boom", "blocked by CORS"}

Errors ==
    [name : ErrNames, code : ErrCodes, statusCode : ErrStatusCodes,
     isOperational : BOOLEAN, message : ErrMessages]

\* err.message.includes('CORS')
mentionsCORS(message) == message = "blocked by CORS"

\* slip: the stack is left out in production only
isNotProduction(env) == env # "production"

\* process.env.NODE_ENV === 'development'
isDevelopment(env) == env = "development"

\* createError(message, statusCode, code); an argument left out is None
createError(message, statusCode, code) ==
    [name |-> "Error", message |-> message,
     statusCode |-> IF IsSet(statusCode) THEN statusCode ELSE Some(500),
     code |-> IF IsSet(code) THEN code ELSE Some("GENERIC_ERROR"),
     isOperational |-> TRUE]

\* the error object the handler ends with: the copy of err, replaced in
\* turn by every block whose condition holds
classifyError(err) ==
    LET Replace(message, statusCode, code) ==
            [message |-> message, statusCode |-> Some(statusCode), code |-> Some(code)]
        e0 == [message |-> err.message, statusCode |-> err.statusCode, code |-> err.code]
        e1 == IF err.name = "CastError"
                  THEN Replace("Resource not found", 404, "INVALID_ID") ELSE e0
        e2 == IF err.code = Some("E11000")
                  THEN Replace("Field 'value' already exists", 400, "DUPLICATE_VALUE")
              ELSE e1
        e3 == IF err.name = "ValidationError"
                  THEN Replace("messages of the fields", 400, "VALIDATION_ERROR")
              ELSE e2
        e4 == IF err.name = "JsonWebTokenError"
                  THEN Replace("Invalid token. Please log in again.", 401, "INVALID_TOKEN")
              ELSE e3
        e5 == IF err.name = "TokenExpiredError"
                  THEN Replace("Token has expired. Please log in again.", 401,
                               "TOKEN_EXPIRED")
              ELSE e4
        e6 == IF err.name \in {"MongoNetworkError", "MongooseServerSelectionError"}
                  THEN Replace("Database connection error. Please try again later.",
                               503, "DATABASE_ERROR")
              ELSE e5
        e7 == IF err.code = Some("LIMIT_FILE_SIZE")
                  THEN Replace("File size too large. Please upload a smaller file.",
                               400, "FILE_TOO_LARGE")
              ELSE e6
        e8 == IF err.code = Some("LIMIT_UNEXPECTED_FILE")
                  THEN Replace("Unexpected file field or too many files.", 400,
                               "INVALID_FILE_UPLOAD")
              ELSE e7
        e9 == IF err.statusCode = Some(429)
                  THEN Replace("Too many requests. Please try again later.", 429,
                               "RATE_LIMIT_EXCEEDED")
              ELSE e8
        e10 == IF mentionsCORS(err.message)
                   THEN Replace("Cross-origin request blocked. Please check your request origin.",
                                403, "CORS_ERROR")
               ELSE e9
    IN  IF err.isOperational \/ IsSet(err.statusCode)
            THEN [message |-> IF err.message # "" THEN err.message
                              ELSE "Something went wrong",
                  statusCode |-> IF IsSet(err.statusCode) THEN err.statusCode
                                 ELSE Some(500),
                  code |-> IF IsSet(err.code) THEN err.code ELSE Some("UNKNOWN_ERROR")]
        ELSE e10

\* errorHandler: the responses it sends
errorHandler(err, env) ==
    LET error == classifyError(err) IN
    <<[status |-> IF IsSet(error.statusCode) THEN Val(error.statusCode) ELSE 500,
       success |-> FALSE,
       message |-> IF error.message # "" THEN error.message
                   ELSE "Internal Server Error",
       code |-> error.code,
       stack |-> isDevelopment(env)]>>

\* next(err) with an error thrown by a library or built by hand
HandleError ==
    /\ \E err \in Errors, env \in Envs :
          handled' = [env |-> env, err |-> err, made |-> None,
                      out |-> errorHandler(err, env)]
    /\ UNCHANGED <<today, projects, tasks, resp, accounts, signups, authed,
                 pending, sessions>>

\* next(createError(message, statusCode, code))
HandleCreated ==
    /\ \E m \in ErrMessages, sc \in ErrStatusCodes, c \in ErrCodes, env \in Envs :
          handled' = [env |-> env, err |-> createError(m, sc, c),
                      made |-> Some([message |-> m, statusCode |-> sc, code |-> c]),
                      out |-> errorHandler(createError(m, sc, c), env)]
    /\ UNCHANGED <<today, projects, tasks, resp, accounts, signups, authed,
                 pending, sessions>>

NextError ==
    \/ HandleError
    \/ HandleCreated

SpecError == Init /\ [][NextError]_vars

\* ----------------------------------------------------------- archive world
\* every write operation, on documents that are archived or not; update
\* bodies may carry isArchived: false
CreateProjectA ==
    /\ UNCHANGED aux
    /\ /\ Len(projects) < MaxProjects
       /\ createProject(Owner, [title |-> TRUE, status |-> None, teamMembers |-> <<>>])

UpdateProjectA ==
    /\ UNCHANGED aux
    /\ \E u \in Users, p \in ProjectIds :
          \E body \in [status : {None, Some("Completed")}, progress : {None},
                        teamMembers : {None}, isArchived : Opt({FALSE})] :
             updateProject(u, p, body)

DeleteProjectA ==
    /\ UNCHANGED aux
    /\ \E u \in Users, p \in ProjectIds : deleteProject(u, p)

AddTeamMemberA ==
    /\ UNCHANGED aux
    /\ \E p \in ProjectIds : addTeamMember(Owner, p, Some("u2"))

RemoveTeamMemberA ==
    /\ UNCHANGED aux
    /\ \E p \in ProjectIds : removeTeamMember(Owner, p, "u2")

CreateTaskA ==
    /\ UNCHANGED aux
    /\ /\ Len(tasks) < MaxTasks
       /\ \E u \in Users, p \in ProjectIds :
             createTask(u, [title |-> TRUE, assignedTo |-> Some(Owner),
                            project |-> Some(p), dueDate |-> Some(today),
                            status |-> None])

UpdateTaskA ==
    /\ UNCHANGED aux
    /\ \E u \in Users, t \in TaskIds :
          \E body \in [status : {None, Some("Done")}, progress : {None},
                        assignedTo : {None}, dueDate : {None},
                        isArchived : Opt({FALSE})] :
             updateTask(u, t, body)

DeleteTaskA ==
    /\ UNCHANGED aux
    /\ \E u \in Users, t \in TaskIds : deleteTask(u, t)

AddCommentA ==
    /\ UNCHANGED aux
    /\ \E u \in Users, t \in TaskIds : addComment(u, t, TRUE)

NextArchive ==
    \/ CreateProjectA
    \/ UpdateProjectA
    \/ DeleteProjectA
    \/ AddTeamMemberA
    \/ RemoveTeamMemberA
    \/ CreateTaskA
    \/ UpdateTaskA
    \/ DeleteTaskA
    \/ AddCommentA

SpecArchive == Init /\ [][NextArchive]_vars

\* -------------------------------------------------------------- list world
\* the operations that return lists of tasks, over a project of Owner with
\* u2 in its team, tasks of both, archived or not, due or overdue

\* slip: the filter of getMyTasks without isArchived: false
myTasksFilterWithArchived(u, status, t) ==
    /\ t.assignedTo = u
    /\ IsSet(status) => t.status = Val(status)

\* the filter of getMyTasks; status is the query's status (none, or 'all',
\* is no filter)
myTasksFilter(u, status, t) ==
    /\ t.assignedTo = u
    /\ ~t.isArchived
    /\ IsSet(status) => t.status = Val(status)

\* getMyTasks
getMyTasks(u, status) ==
    /\ resp' = [Response("getMyTasks", u, 0, 0, 200, "OK") EXCEPT
                   !.tasks = {i \in TaskIds : myTasksFilter(u, status, tasks[i])}]
    /\ UNCHANGED <<today, projects, tasks>>

\* the filter of getOverdueTasks
overdueFilter(u, t) ==
    /\ t.project \in userProjects(u)
    /\ t.dueDate < today
    /\ t.status # "Done"
    /\ ~t.isArchived

\* getOverdueTasks
getOverdueTasks(u) ==
    /\ resp' = [Response("getOverdueTasks", u, 0, 0, 200, "OK") EXCEPT
                   !.tasks = {i \in TaskIds : overdueFilter(u, tasks[i])}]
    /\ UNCHANGED <<today, projects, tasks>>

AdvanceDayL ==
    /\ AdvanceDay

CreateProjectL ==
    /\ UNCHANGED aux
    /\ /\ Len(projects) < MaxProjects
       /\ createProject(Owner, [title |-> TRUE, status |-> None,
                                teamMembers |-> <<"u2">>])

CreateTaskL ==
    /\ UNCHANGED aux
    /\ /\ Len(tasks) < MaxTasksList
       /\ \E a \in Users, d \in DayInputs, st \in {None, Some("Done")} :
             createTask(Owner, [title |-> TRUE, assignedTo |-> Some(a),
                                project |-> Some(1), dueDate |-> Some(d),
                                status |-> st])

DeleteTaskL ==
    /\ UNCHANGED aux
    /\ \E t \in TaskIds : deleteTask(Owner, t)

DeleteProjectL ==
    /\ UNCHANGED aux
    /\ \E p \in ProjectIds : deleteProject(Owner, p)

GetTasksL ==
    /\ UNCHANGED aux
    /\ \E u \in Users : \E q \in TaskQueries(Opt(TaskStatuses)) : getTasks(u, q)

GetMyTasksL ==
    /\ UNCHANGED aux
    /\ \E u \in Users : \E status \in Opt(TaskStatuses) : getMyTasks(u, status)

GetOverdueTasksL ==
    /\ UNCHANGED aux
    /\ \E u \in Users : getOverdueTasks(u)

GetProjectL ==
    /\ UNCHANGED aux
    /\ \E u \in Users : \E p \in PidInputs : getProject(u, p)

NextList ==
    \/ AdvanceDayL
    \/ CreateProjectL
    \/ CreateTaskL
    \/ DeleteTaskL
    \/ DeleteProjectL
    \/ GetTasksL
    \/ GetMyTasksL
    \/ GetOverdueTasksL
    \/ GetProjectL

SpecList == Init /\ [][NextList]_vars

\* ----------------------------------------------------------- session world
\* Accounts that log in and use their tokens while the clock of the tokens
\* runs: u1 is active (until its isActive flag is cleared in the
\* collection), InactiveUser is not.  The database answers.
MaxClock == 2

\* expiresIn, in ticks of the tokens' clock
TokenLife == 1

\* the stored (lower case, trimmed) email of an account
accountEmail(u) ==
    [name |-> IF u = "u1" THEN "ann" ELSE "bob", upper |-> FALSE, padded |-> FALSE]

\* the addresses a login may carry: those of the accounts as stored or in
\* upper case between blanks, and one nobody registered
LoginEmails ==
    {[name |-> n, upper |-> w, padded |-> w] :
        n \in EmailNames \cup {"cyd"}, w \in BOOLEAN}

LoginBodies == [email : Opt(LoginEmails), password : Opt(Passwords)]

ChangePasswordBodies ==
    [currentPassword : Opt({"pw1", "pw2"}), newPassword : Opt(Passwords)]

\* password.length
passwordLength(pw) ==
    IF pw = "short" THEN MinPasswordLength - 1 ELSE MinPasswordLength

\* User.findOne({email: email.toLowerCase().trim()})
findOneByEmail(e) ==
    IF \E u \in LoginUsers : accountEmail(u) = normalizeEmail(e)
        THEN Some(CHOOSE u \in LoginUsers : accountEmail(u) = normalizeEmail(e))
    ELSE None

\* user.matchPassword(entered)
matchPassword(u, entered) == sessions.password[u] = entered

\* generateToken(userId): the payload's id and the time the token expires
generateToken(id) == [id |-> id, exp |-> sessions.now + TokenLife]

\* the header a client sends with a token it was issued
bearer(t) ==
    Some([scheme |-> "Bearer",
          token |-> Some([kind |-> "jwt", signed |-> TRUE,
                          expired |-> sessions.now >= t.exp, id |-> t.id])])

\* slip: login does not look at isActive
loginCheckNoActive(user, password) ==
    IF ~IsSet(user) THEN [status |-> 401, code |-> "INVALID_CREDENTIALS"]
    ELSE IF ~matchPassword(Val(user), password)
        THEN [status |-> 401, code |-> "INVALID_CREDENTIALS"]
    ELSE [status |-> 200, code |-> "OK"]

\* login, after User.findOne: the account, its isActive flag, the password
loginCheck(user, password) ==
    IF ~IsSet(user) THEN [status |-> 401, code |-> "INVALID_CREDENTIALS"]
    ELSE IF ~isActiveUser(Val(user))
        THEN [status |-> 401, code |-> "ACCOUNT_DEACTIVATED"]
    ELSE IF ~matchPassword(Val(user), password)
        THEN [status |-> 401, code |-> "INVALID_CREDENTIALS"]
    ELSE [status |-> 200, code |-> "OK"]

\* login; a 200 carries a new token
login(body) ==
    IF ~IsSet(body.email) \/ ~IsSet(body.password)
        THEN /\ resp' = Response("login", "none", 0, 0, 400, "MISSING_CREDENTIALS")
             /\ UNCHANGED sessions
    ELSE LET user == findOneByEmail(Val(body.email))
             out == loginCheck(user, Val(body.password))
         IN  /\ resp' = Response("login", IF IsSet(user) THEN Val(user) ELSE "none",
                                 0, 0, out.status, out.code)
             /\ sessions' = IF out.status = 200
                                THEN [sessions EXCEPT
                                         !.issued = @ \cup {generateToken(Val(user))}]
                            ELSE sessions

\* slip: the save of the new password also clears isActive
changePasswordSaveLocking(s, u, pw) ==
    [s EXCEPT !.password[u] = pw, !.deactivated = @ \cup {u}]

\* user.password = newPassword; user.save()
changePasswordSave(s, u, pw) == [s EXCEPT !.password[u] = pw]

\* slip: the new password is saved before the current one is compared
changePasswordSaveFirst(u, body) ==
    IF ~IsSet(body.currentPassword) \/ ~IsSet(body.newPassword)
        THEN /\ resp' = Response("changePassword", u, 0, 0, 400, "MISSING_PASSWORDS")
             /\ UNCHANGED sessions
    ELSE IF passwordLength(Val(body.newPassword)) < MinPasswordLength
        THEN /\ resp' = Response("changePassword", u, 0, 0, 400, "INVALID_NEW_PASSWORD")
             /\ UNCHANGED sessions
    ELSE /\ sessions' = changePasswordSave(sessions, u, Val(body.newPassword))
         /\ resp' = IF matchPassword(u, Val(body.currentPassword))
                        THEN Response("changePassword", u, 0, 0, 200, "OK")
                    ELSE Response("changePassword", u, 0, 0, 400,
                                  "INVALID_CURRENT_PASSWORD")

\* changePassword
changePassword(u, body) ==
    LET refuse(status, code) ==
            /\ resp' = Response("changePassword", u, 0, 0, status, code)
            /\ UNCHANGED sessions
    IN  IF ~IsSet(body.currentPassword) \/ ~IsSet(body.newPassword)
            THEN refuse(400, "MISSING_PASSWORDS")
        ELSE IF passwordLength(Val(body.newPassword)) < MinPasswordLength
            THEN refuse(400, "INVALID_NEW_PASSWORD")
        ELSE IF u \notin LoginUsers
            THEN refuse(404, "USER_NOT_FOUND")
        ELSE IF ~matchPassword(u, Val(body.currentPassword))
            THEN refuse(400, "INVALID_CURRENT_PASSWORD")
        ELSE /\ sessions' = changePasswordSave(sessions, u, Val(body.newPassword))
             /\ resp' = Response("changePassword", u, 0, 0, 200, "OK")

\* logout
logout(u) ==
    /\ resp' = Response("logout", u, 0, 0, 200, "OK")
    /\ UNCHANGED sessions

\* getMe: any controller behind protect that only reads
getMe(u) ==
    /\ resp' = Response("getMe", u, 0, 0, 200, "OK")
    /\ UNCHANGED sessions

\* router.use(protect), then the route's controller if protect called next
behindProtect(route, header, controller) ==
    LET out == protect(header, TRUE) IN
    /\ authed' = [route |-> route, header |-> header, dbUp |-> TRUE, out |-> out]
    /\ IF out.next = 1 THEN controller ELSE UNCHANGED <<resp, sessions>>

\* req.user._id after protect
reqUser(header) == Val(protect(header, TRUE).user)

\* what a step of the session world leaves alone
sessionFrame == <<today, projects, tasks, accounts, signups, handled, pending>>

\* the headers of the session world: none, or a token that was issued
SessionHeaders == {None} \cup {bearer(t) : t \in sessions.issued}

Login ==
    /\ \E body \in LoginBodies : login(body)
    /\ UNCHANGED authed
    /\ UNCHANGED sessionFrame

GetMe ==
    /\ \E header \in SessionHeaders :
          behindProtect("GET /auth/me", header, getMe(reqUser(header)))
    /\ UNCHANGED sessionFrame

ChangePassword ==
    /\ \E header \in SessionHeaders, body \in ChangePasswordBodies :
          behindProtect("PUT /auth/change-password", header,
                        changePassword(reqUser(header), body))
    /\ UNCHANGED sessionFrame

Logout ==
    /\ \E header \in SessionHeaders :
          behindProtect("POST /auth/logout", header, logout(reqUser(header)))
    /\ UNCHANGED sessionFrame

\* the tokens' clock moves on
Tick ==
    /\ sessions.now < MaxClock
    /\ sessions' = [sessions EXCEPT !.now = @ + 1]
    /\ UNCHANGED <<resp, authed>>
    /\ UNCHANGED sessionFrame

\* the isActive flag of u1 is cleared in the collection (no route does it)
Deactivate ==
    /\ "u1" \notin sessions.deactivated
    /\ sessions' = [sessions EXCEPT !.deactivated = @ \cup {"u1"}]
    /\ UNCHANGED <<resp, authed>>
    /\ UNCHANGED sessionFrame

NextSession ==
    \/ Login
    \/ GetMe
    \/ ChangePassword
    \/ Logout
    \/ Tick
    \/ Deactivate

SpecSession == Init /\ [][NextSession]_vars

\* ------------------------------------------------------------- frame world
\* project, task and auth requests, the well-formed ones and those that are
\* refused, one after the other; the requester of a protected route is the
\* user protect let through

\* signup, from the request to the response
signup(body) ==
    LET refuse(code) ==
            /\ resp' = Response("signup", "none", 0, 0, 400, code)
            /\ UNCHANGED accounts
    IN  IF ~body.name \/ ~IsSet(body.email) \/ body.password = 0
            THEN refuse("MISSING_FIELDS")
        ELSE IF findByEmail(Val(body.email)) THEN refuse("EMAIL_EXISTS")
        ELSE IF body.password < MinPasswordLength THEN refuse("INVALID_PASSWORD")
        ELSE IF normalizeEmail(Val(body.email)) \in accounts
            THEN refuse("DUPLICATE_EMAIL")
        ELSE /\ accounts' = accounts \cup {normalizeEmail(Val(body.email))}
             /\ resp' = Response("signup", "none", 0, 0, 201, "OK")

\* maxlength of department
MaxDepartmentLength == 30

\* the departments a profile update may carry, by their length: one that
\* is too long
DepartmentInputs == {MaxDepartmentLength + 1}

\* updateProfile; body = [department]
updateProfile(u, body) ==
    IF IsSet(body.department) /\ Val(body.department) > MaxDepartmentLength
        THEN /\ resp' = Response("updateProfile", u, 0, 0, 400, "VALIDATION_ERROR")
             /\ UNCHANGED sessions
    ELSE /\ sessions' = IF IsSet(body.department)
                            THEN [sessions EXCEPT !.department[u] = body.department]
                        ELSE sessions
         /\ resp' = Response("updateProfile", u, 0, 0, 200, "OK")

\* what a project or task request of the frame world leaves alone
authFrame == <<accounts, signups, authed, handled, pending, sessions>>

\* what an auth request of the frame world leaves alone besides the users
dbFrame == <<today, projects, tasks, signups, authed, handled, pending>>

\* the bodies of the frame world: a complete one and malformed ones
FrameTaskBodies ==
    {[title |-> ti, assignedTo |-> a, project |-> p, dueDate |-> d, status |-> None] :
        ti \in BOOLEAN, a \in Opt({"u1"}), p \in Opt({1}), d \in Opt({today})}
    \cup {[title |-> TRUE, assignedTo |-> Some(InactiveUser), project |-> Some(1),
           dueDate |-> Some(today), status |-> None]}

FrameTaskUpdates ==
    {[status |-> None, progress |-> pr, assignedTo |-> a, dueDate |-> None] :
        pr \in {None, Some(150)}, a \in {None, Some(InactiveUser)}}

FrameSignupBodies ==
    {body \in SignupBodies : IsSet(body.email) => Val(body.email).name = "ann"}

FrameLoginBodies ==
    {body \in LoginBodies :
        IsSet(body.email) => ~Val(body.email).upper /\ Val(body.email).name # "cyd"}

AdvanceDayF ==
    /\ AdvanceDay

CreateProjectF ==
    /\ UNCHANGED authFrame
    /\ /\ Len(projects) < MaxProjects
       /\ \E body \in ProjectCreateBodies({None}, {<<>>, <<InactiveUser>>}) :
             createProject(Owner, body)

UpdateProjectF ==
    /\ UNCHANGED authFrame
    /\ \E u \in Users, p \in PidInputs :
          \E body \in ProjectUpdateBodies({None}, {None, Some(150)},
                                          {<<InactiveUser>>}) :
             updateProject(u, p, body)

DeleteProjectF ==
    /\ UNCHANGED authFrame
    /\ \E u \in Users, p \in PidInputs : deleteProject(u, p)

AddTeamMemberF ==
    /\ UNCHANGED authFrame
    /\ \E u \in Users, p \in PidInputs, m \in Opt({"u2", InactiveUser}) :
          addTeamMember(u, p, m)

RemoveTeamMemberF ==
    /\ UNCHANGED authFrame
    /\ \E u \in Users, p \in PidInputs : removeTeamMember(u, p, "u2")

CreateTaskF ==
    /\ UNCHANGED authFrame
    /\ /\ Len(tasks) < MaxTasks
       /\ \E u \in Users : \E body \in FrameTaskBodies : createTask(u, body)

UpdateTaskF ==
    /\ UNCHANGED authFrame
    /\ \E u \in Users, t \in TidInputs :
          \E body \in FrameTaskUpdates : updateTask(u, t, body)

DeleteTaskF ==
    /\ UNCHANGED authFrame
    /\ \E u \in Users, t \in TidInputs : deleteTask(u, t)

AddCommentF ==
    /\ UNCHANGED authFrame
    /\ \E u \in Users, t \in TidInputs, content \in BOOLEAN : addComment(u, t, content)

SignupF ==
    /\ \E body \in FrameSignupBodies : signup(body)
    /\ UNCHANGED sessions
    /\ UNCHANGED dbFrame

LoginF ==
    /\ \E body \in FrameLoginBodies : login(body)
    /\ UNCHANGED accounts
    /\ UNCHANGED dbFrame

ChangePasswordF ==
    /\ \E body \in ChangePasswordBodies : changePassword("u1", body)
    /\ UNCHANGED accounts
    /\ UNCHANGED dbFrame

UpdateProfileF ==
    /\ \E body \in [department : Opt(DepartmentInputs)] : updateProfile("u1", body)
    /\ UNCHANGED accounts
    /\ UNCHANGED dbFrame

NextFrame ==
    \/ AdvanceDayF
    \/ CreateProjectF
    \/ UpdateProjectF
    \/ DeleteProjectF
    \/ AddTeamMemberF
    \/ RemoveTeamMemberF
    \/ CreateTaskF
    \/ UpdateTaskF
    \/ DeleteTaskF
    \/ AddCommentF
    \/ SignupF
    \/ LoginF
    \/ ChangePasswordF
    \/ UpdateProfileF

SpecFrame == Init /\ [][NextFrame]_vars

\* -------------------------------------------------------------- race world
\* Two project / task requests at a time.  A controller runs up to its next
\* await, other requests run, and it goes on with the document it loaded:
\* each step below is the code between two database operations.
\* One project of Owner; the clock stands still.

\* document.save() of a loaded document: the update sets the paths whose
\* value differs from the loaded one and leaves the others as stored
saveModified(stored, loaded, doc) ==
    [f \in DOMAIN stored |-> IF doc[f] # loaded[f] THEN doc[f] ELSE stored[f]]

\* a request enters a slot
Started(op, u, p, t, body, loaded, pc) ==
    [op |-> op, pc |-> pc, user |-> u, pid |-> p, tid |-> t, body |-> body,
     loaded |-> loaded, status |-> 0, code |-> "NONE"]

\* the response of a request in a slot; the request's body and the document
\* it loaded are gone with it
Finished(slot, status, code) ==
    [slot EXCEPT !.pc = "done", !.status = status, !.code = code,
                 !.body = None, !.loaded = None]

\* what a step of the race world leaves alone besides the two collections
raceFrame == <<today, resp, accounts, signups, authed, handled, sessions>>

\* deleteProject, up to the end of Project.findById and the owner check
beginDeleteProject(s, u, p) ==
    /\ pending[s].pc \in {"idle", "done"}
    /\ LET start(pc, loaded) ==
               Started("deleteProject", u, p, 0, None, loaded, pc)
       IN  pending' = [pending EXCEPT ![s] =
              IF p \notin ProjectIds
                  THEN Finished(start("done", None), 404, "PROJECT_NOT_FOUND")
              ELSE IF ~isOwner(projects[p], u)
                  THEN Finished(start("done", None), 403, "ACCESS_DENIED")
              ELSE start("save", Some(projects[p]))]
    /\ UNCHANGED <<projects, tasks>>
    /\ UNCHANGED raceFrame

\* deleteProject: project.save() of the archived document
saveDeleteProject(s) ==
    /\ pending[s].op = "deleteProject" /\ pending[s].pc = "save"
    /\ LET p == pending[s].pid
           loaded == Val(pending[s].loaded)
           doc == projectPreSave([loaded EXCEPT !.isArchived = TRUE,
                                                !.archivedAt = Some(today)])
       IN  projects' = [projects EXCEPT ![p] = saveModified(@, loaded, doc)]
    /\ pending' = [pending EXCEPT ![s].pc = "cascade"]
    /\ UNCHANGED tasks
    /\ UNCHANGED raceFrame

\* deleteProject: Task.updateMany and the response
cascadeDeleteProject(s) ==
    /\ pending[s].op = "deleteProject" /\ pending[s].pc = "cascade"
    /\ tasks' = archiveTasksOf(tasks, pending[s].pid)
    /\ pending' = [pending EXCEPT ![s] = Finished(@, 200, "OK")]
    /\ UNCHANGED projects
    /\ UNCHANGED raceFrame

\* createTask, up to the end of Project.findById and the access check
beginCreateTask(s, u, body) ==
    /\ pending[s].pc \in {"idle", "done"}
    /\ LET start(p, pc) == Started("createTask", u, p, 0, Some(body), None, pc)
           refuse(p, status, code) == Finished(start(p, "done"), status, code)
       IN  pending' = [pending EXCEPT ![s] =
              IF ~body.title THEN refuse(0, 400, "MISSING_TITLE")
              ELSE IF ~IsSet(body.assignedTo)
                  THEN refuse(0, 400, "MISSING_ASSIGNED_TO")
              ELSE IF ~IsSet(body.project) THEN refuse(0, 400, "MISSING_PROJECT")
              ELSE IF ~IsSet(body.dueDate)
                  THEN refuse(Val(body.project), 400, "MISSING_DUE_DATE")
              ELSE LET p == Val(body.project) IN
                   IF p \notin ProjectIds \/ projects[p].isArchived
                       THEN refuse(p, 404, "PROJECT_NOT_FOUND")
                   ELSE IF ~hasAccess(projects[p], u)
                       THEN refuse(p, 403, "ACCESS_DENIED")
                   ELSE start(p, "create")]
    /\ UNCHANGED <<projects, tasks>>
    /\ UNCHANGED raceFrame

\* createTask, from the end of User.findById to the response: the checks of
\* the assignee and of the due date, Task.create
finishCreateTask(s) ==
    /\ pending[s].op = "createTask" /\ pending[s].pc = "create"
    /\ LET body == Val(pending[s].body)
           doc == [project |-> pending[s].pid,
                   createdBy |-> pending[s].user,
                   assignedTo |-> Val(body.assignedTo),
                   status |-> IF IsSet(body.status) THEN Val(body.status)
                              ELSE "Todo",
                   progress |-> 0,
                   completedAt |-> None,
                   dueDate |-> Val(body.dueDate),
                   isArchived |-> FALSE,
                   comments |-> <<>>]
           refuse(status, code) ==
               /\ pending' = [pending EXCEPT ![s] = Finished(@, status, code)]
               /\ UNCHANGED tasks
       IN  IF ~isActiveUser(Val(body.assignedTo))
               THEN refuse(400, "INVALID_ASSIGNED_USER")
           ELSE IF dueDateInPast(Val(body.dueDate))
               THEN refuse(400, "INVALID_DUE_DATE")
           ELSE IF ~taskValidate(doc)
               THEN refuse(400, "VALIDATION_ERROR")
           ELSE /\ Len(tasks) < MaxTasksRace
                /\ tasks' = Append(tasks, taskPreSave(doc, TRUE, FALSE))
                /\ pending' = [pending EXCEPT ![s] =
                       [Finished(@, 201, "OK") EXCEPT !.tid = Len(tasks) + 1]]
    /\ UNCHANGED projects
    /\ UNCHANGED raceFrame

\* updateTask, up to the end of Task.findById(...).populate('project'), the
\* permission check and the check of the due date
beginUpdateTask(s, u, t, body) ==
    /\ pending[s].pc \in {"idle", "done"}
    /\ LET start(p, pc, loaded) ==
               Started("updateTask", u, p, t, Some(body), loaded, pc)
           refuse(p, status, code) ==
               Finished(start(p, "done", None), status, code)
       IN  pending' = [pending EXCEPT ![s] =
              IF t \notin TaskIds THEN refuse(0, 404, "TASK_NOT_FOUND")
              ELSE LET p == tasks[t].project IN
                   IF ~canUpdate(projects[p], tasks[t], u)
                       THEN refuse(p, 403, "ACCESS_DENIED")
                   ELSE IF IsSet(body.dueDate) /\ dueDateInPast(Val(body.dueDate))
                       THEN refuse(p, 400, "INVALID_DUE_DATE")
                   ELSE start(p, "save", Some(tasks[t]))]
    /\ UNCHANGED <<projects, tasks>>
    /\ UNCHANGED raceFrame

\* updateTask, from the check of the assignee to the response: the
\* allowedFields loop on the loaded document and task.save()
finishUpdateTask(s) ==
    /\ pending[s].op = "updateTask" /\ pending[s].pc = "save"
    /\ LET t == pending[s].tid
           body == Val(pending[s].body)
           loaded == Val(pending[s].loaded)
           doc == applyTaskUpdate(loaded, body)
           refuse(status, code) ==
               /\ pending' = [pending EXCEPT ![s] = Finished(@, status, code)]
               /\ UNCHANGED tasks
       IN  IF IsSet(body.assignedTo) /\ ~isActiveUser(Val(body.assignedTo))
               THEN refuse(400, "INVALID_ASSIGNED_USER")
           ELSE IF ~taskValidate(doc)
               THEN refuse(400, "VALIDATION_ERROR")
           ELSE /\ tasks' = [tasks EXCEPT ![t] =
                       saveModified(@, loaded, savedTask(loaded, doc))]
                /\ pending' = [pending EXCEPT ![s] = Finished(@, 200, "OK")]
    /\ UNCHANGED projects
    /\ UNCHANGED raceFrame

\* deleteTask, up to the end of Task.findById(...).populate('project') and
\* the permission check
beginDeleteTask(s, u, t) ==
    /\ pending[s].pc \in {"idle", "done"}
    /\ LET start(p, pc, loaded) ==
               Started("deleteTask", u, p, t, None, loaded, pc)
           refuse(p, status, code) ==
               Finished(start(p, "done", None), status, code)
       IN  pending' = [pending EXCEPT ![s] =
              IF t \notin TaskIds THEN refuse(0, 404, "TASK_NOT_FOUND")
              ELSE LET p == tasks[t].project IN
                   IF ~canDelete(projects[p], tasks[t], u)
                       THEN refuse(p, 403, "ACCESS_DENIED")
                   ELSE start(p, "save", Some(tasks[t]))]
    /\ UNCHANGED <<projects, tasks>>
    /\ UNCHANGED raceFrame

\* deleteTask: task.save() of the archived document
finishDeleteTask(s) ==
    /\ pending[s].op = "deleteTask" /\ pending[s].pc = "save"
    /\ LET t == pending[s].tid
           loaded == Val(pending[s].loaded)
           doc == [loaded EXCEPT !.isArchived = TRUE]
       IN  IF ~taskValidate(doc)
               THEN /\ pending' = [pending EXCEPT ![s] =
                           Finished(@, 400, "VALIDATION_ERROR")]
                    /\ UNCHANGED tasks
           ELSE /\ tasks' = [tasks EXCEPT ![t] =
                       saveModified(@, loaded, savedTask(loaded, doc))]
                /\ pending' = [pending EXCEPT ![s] = Finished(@, 200, "OK")]
    /\ UNCHANGED projects
    /\ UNCHANGED raceFrame

\* addTeamMember, up to the end of Project.findById and the owner check
beginAddTeamMember(s, u, p, newMember) ==
    /\ pending[s].pc \in {"idle", "done"}
    /\ LET start(pc, loaded) ==
               Started("addTeamMember", u, p, 0, newMember, loaded, pc)
           refuse(status, code) == Finished(start("done", None), status, code)
       IN  pending' = [pending EXCEPT ![s] =
              IF ~IsSet(newMember) THEN refuse(400, "MISSING_USER_ID")
              ELSE IF p \notin ProjectIds THEN refuse(404, "PROJECT_NOT_FOUND")
              ELSE IF ~isOwner(projects[p], u) THEN refuse(403, "ACCESS_DENIED")
              ELSE start("push", Some(projects[p]))]
    /\ UNCHANGED <<projects, tasks>>
    /\ UNCHANGED raceFrame

\* addTeamMember, from the end of User.findById to the response:
\* project.addTeamMember looks for the user in the loaded teamMembers,
\* pushes, and its save() sends the push of the new element
finishAddTeamMember(s) ==
    /\ pending[s].op = "addTeamMember" /\ pending[s].pc = "push"
    /\ LET p == pending[s].pid
           m == Val(pending[s].body)
           loaded == Val(pending[s].loaded)
           doc == projectPreSave(pushTeamMember(loaded, m))
           refuse(status, code) ==
               /\ pending' = [pending EXCEPT ![s] = Finished(@, status, code)]
               /\ UNCHANGED projects
       IN  IF ~isActiveUser(m) THEN refuse(400, "INVALID_USER")
           ELSE IF isTeamMember(loaded, m)
               THEN refuse(400, "DUPLICATE_TEAM_MEMBER")
           ELSE /\ Len(projects[p].teamMembers) < MaxTeamRace
                /\ projects' = [projects EXCEPT ![p] =
                       [saveModified(@, loaded, doc) EXCEPT
                           !.teamMembers = Append(projects[p].teamMembers, m)]]
                /\ pending' = [pending EXCEPT ![s] = Finished(@, 200, "OK")]
    /\ UNCHANGED tasks
    /\ UNCHANGED raceFrame

\* the requests of the race world
RaceTaskBodies ==
    [title : {TRUE}, assignedTo : {Some("u1")},
     project : {Some(1)}, dueDate : {Some(0)}, status : {None}]
    \cup {[title |-> FALSE, assignedTo |-> Some("u1"), project |-> Some(1),
           dueDate |-> Some(0), status |-> None]}

RaceUpdateBodies ==
    [status : {Some("Done")}, progress : {None},
     assignedTo : {None}, dueDate : {None}]

CreateProjectR ==
    /\ Len(projects) < MaxProjects
    /\ createProject(Owner, [title |-> TRUE, status |-> None, teamMembers |-> <<>>])
    /\ UNCHANGED aux

BeginDeleteProject ==
    \E s \in Slots, u \in Users, p \in 1..MaxProjects : beginDeleteProject(s, u, p)

SaveDeleteProject == \E s \in Slots : saveDeleteProject(s)

CascadeDeleteProject == \E s \in Slots : cascadeDeleteProject(s)

BeginCreateTask ==
    \E s \in Slots, u \in Users, body \in RaceTaskBodies : beginCreateTask(s, u, body)

FinishCreateTask == \E s \in Slots : finishCreateTask(s)

BeginUpdateTask ==
    \E s \in Slots, u \in Users, t \in 1..MaxTasksRace, body \in RaceUpdateBodies :
        beginUpdateTask(s, u, t, body)

FinishUpdateTask == \E s \in Slots : finishUpdateTask(s)

BeginDeleteTask ==
    \E s \in Slots, u \in Users, t \in 1..MaxTasksRace : beginDeleteTask(s, u, t)

FinishDeleteTask == \E s \in Slots : finishDeleteTask(s)

BeginAddTeamMember ==
    \E s \in Slots, u \in Users, p \in 1..MaxProjects,
       m \in {None, Some("u2")} :
        beginAddTeamMember(s, u, p, m)

FinishAddTeamMember == \E s \in Slots : finishAddTeamMember(s)

NextRace ==
    \/ CreateProjectR
    \/ BeginDeleteProject
    \/ SaveDeleteProject
    \/ CascadeDeleteProject
    \/ BeginCreateTask
    \/ FinishCreateTask
    \/ BeginUpdateTask
    \/ FinishUpdateTask
    \/ BeginDeleteTask
    \/ FinishDeleteTask
    \/ BeginAddTeamMember
    \/ FinishAddTeamMember

SpecRace == Init /\ [][NextRace]_vars

\* ================================================================ claims
\* the relations the claims are stated in, written out on the stored
\* documents
OwnerOf(p) == projects[p].owner
InTeam(p, u) == u \in Range(projects[p].teamMembers)
Outsider(p, u) == u # OwnerOf(p) /\ ~InTeam(p, u)
Denied == resp.status = 403 /\ resp.code = "ACCESS_DENIED"

\* C1: a user who is neither a project's owner nor in its teamMembers gets
\* 403 ACCESS_DENIED for getProject, updateProject and deleteProject on the
\* project and for getTask, updateTask and deleteTask on every task of it,
\* whoever the task's creator and assignee are.
C1_OutsiderDenied ==
    /\ (/\ resp.op \in {"getProject", "updateProject", "deleteProject"}
        /\ resp.pid \in ProjectIds
        /\ Outsider(resp.pid, resp.user)) => Denied
    /\ (/\ resp.op \in {"getTask", "updateTask", "deleteTask"}
        /\ resp.tid \in TaskIds
        /\ Outsider(tasks[resp.tid].project, resp.user)) => Denied

\* C2: whatever filters the requester passes, getTasks returns no task whose
\* project the requester neither owns nor is a team member of.
C2_ListScoped ==
    resp.op = "getTasks" =>
        \A i \in resp.tasks : ~Outsider(tasks[i].project, resp.user)

\* C3: every stored task has status Done if and only if its completedAt is
\* set, also after it left Done for In Progress or Todo.
C3_DoneIffCompleted ==
    \A i \in TaskIds : tasks[i].status = "Done" <=> IsSet(tasks[i].completedAt)

\* a write of this step moved task i to the status st (a new task counts)
ChangedTo(i, st) ==
    /\ tasks'[i].status = st
    /\ (i > Len(tasks) \/ tasks[i].status # st)

\* C4: after a task write in which the status changes to Done the stored
\* task has completedAt set and progress 100, whatever progress the request
\* carries.
C4_DoneWrite ==
    [][\A i \in 1..Len(tasks') :
          ChangedTo(i, "Done") =>
              IsSet(tasks'[i].completedAt) /\ tasks'[i].progress = 100]_vars

\* C4 witness: an update that carried progress 50 moved the task to Done
C4_Witness ==
    /\ resp.op = "updateTask" /\ resp.code = "OK"
    /\ resp.hookIn = Some(50)
    /\ tasks[resp.tid].status = "Done"
    /\ tasks[resp.tid].progress = 100
    /\ IsSet(tasks[resp.tid].completedAt)

\* C5: after a task write in which the status changes to Todo the stored
\* task has completedAt null, and progress 0 if its progress was 100 when
\* the save hook ran.
C5_TodoWrite ==
    [][\A i \in 1..Len(tasks') :
          ChangedTo(i, "Todo") =>
              /\ ~IsSet(tasks'[i].completedAt)
              /\ resp'.hookIn = Some(100) => tasks'[i].progress = 0]_vars

\* C5 witness: an update moved a task whose progress was 100 back to Todo
C5_Witness ==
    /\ resp.op = "updateTask" /\ resp.code = "OK"
    /\ resp.hookIn = Some(100)
    /\ tasks[resp.tid].status = "Todo"
    /\ tasks[resp.tid].progress = 0
    /\ ~IsSet(tasks[resp.tid].completedAt)

\* C6: when deleteProject by the owner returns success the project is
\* archived with archivedAt set and every task of the project is archived.
C6_ArchiveCascade ==
    (resp.op = "deleteProject" /\ resp.code = "OK") =>
        /\ resp.user = OwnerOf(resp.pid)
        /\ projects[resp.pid].isArchived
        /\ IsSet(projects[resp.pid].archivedAt)
        /\ \A i \in TaskIds : tasks[i].project = resp.pid => tasks[i].isArchived

\* C6 witness: the archived project had two tasks
C6_Witness ==
    /\ resp.op = "deleteProject" /\ resp.code = "OK"
    /\ Cardinality({i \in TaskIds : tasks[i].project = resp.pid}) = 2

ProjectWriteOps ==
    {"updateProject", "deleteProject", "addTeamMember", "removeTeamMember"}

\* the step answers a project write of a user who is not the owner
NonOwnerWrite ==
    /\ resp'.op \in ProjectWriteOps
    /\ resp'.pid \in ProjectIds
    /\ resp'.user # OwnerOf(resp'.pid)

C8_UpdateTaskPolicy ==
    [][(resp'.op = "updateTask" /\ resp'.tid \in TaskIds) =>
          LET t == tasks[resp'.tid]
              allowed == \/ resp'.user = OwnerOf(t.project)
                         \/ resp'.user = t.createdBy
                         \/ resp'.user = t.assignedTo
          IN  /\ allowed <=> ~(resp'.status = 403 /\ resp'.code = "ACCESS_DENIED")
              /\ ~allowed => db' = db]_vars

\* C8 witness: a team member who is not creator or assignee was denied
C8_Witness ==
    /\ resp.op = "updateTask" /\ Denied
    /\ InTeam(tasks[resp.tid].project, resp.user)

\* C8 second witness: the assignee, an outsider of the project, was let in
C8_AssigneeAllowed ==
    /\ resp.op = "updateTask" /\ resp.code = "OK"
    /\ Outsider(tasks[resp.tid].project, resp.user)

\* C9: deleteTask archives the task exactly when the requester is the
\* project's owner or the task's createdBy; any other requester gets 403
\* ACCESS_DENIED and isArchived stays as it was.
C9_DeleteTaskPolicy ==
    [][(resp'.op = "deleteTask" /\ resp'.tid \in TaskIds) =>
          LET t == tasks[resp'.tid]
              allowed == \/ resp'.user = OwnerOf(t.project)
                         \/ resp'.user = t.createdBy
          IN  /\ allowed => tasks'[resp'.tid].isArchived
              /\ ~allowed =>
                    /\ resp'.status = 403 /\ resp'.code = "ACCESS_DENIED"
                    /\ tasks'[resp'.tid].isArchived = t.isArchived]_vars

\* codes of the checks createTask and addComment make before the access check
EarlyCodes ==
    {"MISSING_TITLE", "MISSING_ASSIGNED_TO", "MISSING_PROJECT",
     "MISSING_DUE_DATE", "MISSING_CONTENT", "PROJECT_NOT_FOUND", "TASK_NOT_FOUND"}

\* C10: createTask and addComment succeed only for the owner or a team
\* member of the project; for anyone else a request that passes the
\* required-field and lookup checks is answered 403 ACCESS_DENIED, and no
\* task is created and no comment appended.
C10_MemberOnlyWrites ==
    [][(/\ resp'.op \in {"createTask", "addComment"}
        /\ resp'.pid \in ProjectIds
        /\ Outsider(resp'.pid, resp'.user)) =>
          /\ db' = db
          /\ resp'.code \notin EarlyCodes =>
                resp'.status = 403 /\ resp'.code = "ACCESS_DENIED"]_vars

\* C10 witness: an outsider's createTask was denied and no task exists
C10_Witness ==
    /\ resp.op = "createTask" /\ Denied
    /\ Outsider(resp.pid, resp.user)
    /\ tasks = <<>>

C12_ArchivedIffDated ==
    \A p \in ProjectIds : projects[p].isArchived <=> IsSet(projects[p].archivedAt)

\* a project archived by deleteProject, and written again afterwards
C12_Witness ==
    /\ resp.op = "updateProject" /\ resp.code = "OK"
    /\ projects[resp.pid].isArchived
    /\ IsSet(projects[resp.pid].archivedAt)

\* a createTask request that passes every check before the due date: the
\* required fields are there, the project exists and is not archived, the
\* requester is its owner or a team member, the assignee is active
OtherwiseValidCreate(u, body) ==
    /\ body.title /\ IsSet(body.assignedTo) /\ IsSet(body.project)
    /\ IsSet(body.dueDate)
    /\ Val(body.project) \in ProjectIds
    /\ ~projects[Val(body.project)].isArchived
    /\ ~Outsider(Val(body.project), u)
    /\ Val(body.assignedTo) \in Users

C13_TodayAccepted ==
    /\ resp.op = "createTask" /\ resp.status = 201
    /\ today = 1 /\ tasks[resp.tid].dueDate = today

\* the address of a signup body, compared without regard to case, is the
\* address of a stored account
Registered(body) ==
    IsSet(body.email) /\ [Val(body.email) EXCEPT !.upper = FALSE] \in accounts

\* C14: a signup whose email is already registered (compared without regard
\* to case) when it is answered gets 400 EMAIL_EXISTS, creates no account
\* and issues no token, whatever its other fields are and also when another
\* signup for the same email runs at the same time.
C14_EmailExists ==
    [][\A r \in Requests :
          (signups'[r] # signups[r] /\ signups'[r].pc = "done"
             /\ Registered(Val(signups'[r].body))) =>
                /\ signups'[r].status = 400
                /\ signups'[r].code = "EMAIL_EXISTS"
                /\ ~signups'[r].token
                /\ accounts' = accounts]_vars

\* the token of the request that went through protect
BearerToken ==
    IF IsSet(authed.header) /\ Val(authed.header).scheme = "Bearer"
        THEN Val(authed.header).token ELSE None

\* protect called next once with an active user, or sent one 401 and left
\* the controller alone
C15_OnceOrRefused ==
    authed # NoRequest =>
       \/ /\ authed.out.next = 1 /\ authed.out.sent = <<>>
          /\ IsSet(authed.out.user) /\ Val(authed.out.user) \in Users
       \/ /\ authed.out.next = 0 /\ Len(authed.out.sent) = 1
          /\ authed.out.sent[1].status = 401

\* C15: for every request to a protected route, protect either calls next
\* exactly once with req.user an existing active user, or sends exactly one
\* 401 and never reaches the controller; the 401 has code NO_TOKEN when the
\* request carries no token, INVALID_TOKEN when the token is malformed,
\* TOKEN_EXPIRED when it is expired and AUTH_FAILED for any other failure.
C15_ProtectOutcome ==
    /\ C15_OnceOrRefused
    /\ (authed # NoRequest /\ authed.out.next = 0) =>
          authed.out.sent[1].code =
             (IF ~IsSet(BearerToken) THEN "NO_TOKEN"
              ELSE IF Val(BearerToken).kind # "jwt" \/ ~Val(BearerToken).signed
                  THEN "INVALID_TOKEN"
              ELSE IF Val(BearerToken).expired THEN "TOKEN_EXPIRED"
              ELSE "AUTH_FAILED")

\* the non-archived projects the requester of the last request owns or is
\* a team member of, and those of them in status st
AccessibleProjects ==
    {p \in ProjectIds : ~Outsider(p, resp.user) /\ ~projects[p].isArchived}
AccessibleWithStatus(st) == {p \in AccessibleProjects : projects[p].status = st}

\* C16: getProjectStats returns projects.total equal to the number of
\* non-archived projects the requester owns or is a team member of, and
\* planning, inProgress, onHold, completed, cancelled equal to the number of
\* those projects in the corresponding status, so that total is their sum.
C16_ProjectCounters ==
    resp.op = "getProjectStats" =>
       LET c == Val(resp.stats).projects IN
       /\ c["total"] = Cardinality(AccessibleProjects)
       /\ c["planning"] = Cardinality(AccessibleWithStatus("Planning"))
       /\ c["inProgress"] = Cardinality(AccessibleWithStatus("In Progress"))
       /\ c["onHold"] = Cardinality(AccessibleWithStatus("On Hold"))
       /\ c["completed"] = Cardinality(AccessibleWithStatus("Completed"))
       /\ c["cancelled"] = Cardinality(AccessibleWithStatus("Cancelled"))
       /\ c["total"] = c["planning"] + c["inProgress"] + c["onHold"]
                          + c["completed"] + c["cancelled"]

\* the non-archived tasks of the projects the requester of the last request
\* owns or is a team member of, and those of them in status st
AccessibleTasks ==
    {t \in TaskIds : ~Outsider(tasks[t].project, resp.user) /\ ~tasks[t].isArchived}
AccessibleTasksWithStatus(st) == {t \in AccessibleTasks : tasks[t].status = st}

\* C17: the task counters of getProjectStats (total, todo, inProgress, done)
\* count, by status, exactly the non-archived tasks of the projects the
\* requester owns and of the projects where the requester is a team member.
C17_TaskCounters ==
    resp.op = "getProjectStats" =>
       LET c == Val(resp.stats).tasks IN
       /\ c["total"] = Cardinality(AccessibleTasks)
       /\ c["todo"] = Cardinality(AccessibleTasksWithStatus("Todo"))
       /\ c["inProgress"] = Cardinality(AccessibleTasksWithStatus("In Progress"))
       /\ c["done"] = Cardinality(AccessibleTasksWithStatus("Done"))

\* C18: no request changes the owner of a stored project, or the project or
\* createdBy of a stored task; updateProject and updateTask requests whose
\* body carries owner, project or createdBy leave those fields as they were.
C18_Immutable ==
    [][/\ \A p \in ProjectIds : projects'[p].owner = projects[p].owner
       /\ \A t \in TaskIds :
             /\ tasks'[t].project = tasks[t].project
             /\ tasks'[t].createdBy = tasks[t].createdBy]_vars

\* an accepted updateProject whose body named an owner
C18_Witness ==
    /\ resp.op = "updateProject" /\ resp.code = "OK"
    /\ "owner" \in resp.ignored

\* an accepted updateTask whose body named a project and a creator
C18_TaskWitness ==
    /\ resp.op = "updateTask" /\ resp.code = "OK"
    /\ {"project", "createdBy"} \subseteq resp.ignored

\* one response with success false and a message, a stack only in
\* development, and for createError(m, s, c) with all three given and m not
\* empty the status s, the message m and the code c
EnvelopeOf(status) ==
    /\ Len(handled.out) = 1
    /\ ~handled.out[1].success
    /\ handled.out[1].message # ""
    /\ handled.out[1].status = status
    /\ handled.out[1].stack => handled.env = "development"
    /\ (IsSet(handled.made) /\ Val(handled.made).message # ""
          /\ IsSet(Val(handled.made).statusCode) /\ IsSet(Val(handled.made).code)) =>
             /\ handled.out[1].status = Val(Val(handled.made).statusCode)
             /\ handled.out[1].message = Val(handled.made).message
             /\ handled.out[1].code = Val(handled.made).code

\* C19: every error handed to errorHandler produces exactly one response
\* with success false and a message, whose status is the error's statusCode
\* and 500 when it has none; for createError(m, s, c) the response has
\* status s, message m and code c; the body has a stack only in development.
C19_StatusOr500 ==
    handled # NoError =>
       EnvelopeOf(IF IsSet(handled.err.statusCode)
                      THEN Val(handled.err.statusCode) ELSE 500)

\* the status the handler gives an error without statusCode: that of the
\* last kind it recognises, 500 for an error of no recognised kind
StatusOfKind(err) ==
    IF err.isOperational THEN 500
    ELSE IF mentionsCORS(err.message) THEN 403
    ELSE IF err.code \in {Some("LIMIT_FILE_SIZE"), Some("LIMIT_UNEXPECTED_FILE")} THEN 400
    ELSE IF err.name \in {"MongoNetworkError", "MongooseServerSelectionError"} THEN 503
    ELSE IF err.name \in {"JsonWebTokenError", "TokenExpiredError"} THEN 401
    ELSE IF err.name = "ValidationError" \/ err.code = Some("E11000") THEN 400
    ELSE IF err.name = "CastError" THEN 404
    ELSE 500

\* C19 (amended): as C19, but an error without statusCode gets the status of
\* its kind (CastError 404, duplicate key and ValidationError 400, JWT
\* errors 401, database connection errors 503, upload limits 400, a CORS
\* message 403) and 500 only when it is of none of these kinds.
C19_StatusOrKind ==
    handled # NoError =>
       EnvelopeOf(IF IsSet(handled.err.statusCode)
                      THEN Val(handled.err.statusCode)
                  ELSE StatusOfKind(handled.err))

\* a CastError without statusCode was answered in production
C19_Witness ==
    /\ handled # NoError
    /\ handled.err.name = "CastError" /\ ~IsSet(handled.err.statusCode)
    /\ ~handled.err.isOperational
    /\ handled.env = "production"
    /\ handled.out[1].status = 404 /\ ~handled.out[1].stack

\* an error built by createError was answered in development
C19_CreatedWitness ==
    /\ handled # NoError /\ IsSet(handled.made)
    /\ Val(handled.made).message = "boom"
    /\ handled.env = "development" /\ handled.out[1].stack
    /\ handled.out[1].message = "boom"

\* C20: an updateTask that sets both status and progress stores the progress
\* it was given; the defaults of a status (100 for Done, 0 for Todo, 25 for
\* In Progress) apply only when the request does not set progress.
C20_ExplicitProgressWins ==
    [][(resp'.op = "updateTask" /\ resp'.code = "OK") =>
        \A t \in TaskIds :
           \A body \in TaskUpdateBodies({Owner}, Opt(TaskStatuses), Opt(ProgressInputs)) :
              (IsSet(body.status) /\ IsSet(body.progress) /\ updateTask(Owner, t, body))
                 => tasks'[t].progress = Val(body.progress)]_vars

\* every request of the race world has been answered
AllAnswered == \A s \in Slots : pending[s].pc \in {"idle", "done"}

\* C21: deleteProject's archive of the project and of its tasks takes effect
\* as one operation: whatever the interleaving with concurrent createTask,
\* updateTask and deleteTask requests, once all requests are answered no
\* archived project has a task whose isArchived is false.
C21_ArchiveAtomic ==
    AllAnswered =>
        \A t \in TaskIds : projects[tasks[t].project].isArchived => tasks[t].isArchived

\* C22: no user appears more than once in a project's teamMembers, also
\* when two addTeamMember requests for the same user and project are
\* handled at the same time.
C22_NoDuplicateMember ==
    \A p \in ProjectIds :
        Cardinality(Range(projects[p].teamMembers)) = Len(projects[p].teamMembers)

\* C23: under any sequence of createTask and updateTask requests, updates
\* that set only progress included, every stored task whose status is Done
\* has progress 100.
C23_DoneHasFullProgress ==
    \A t \in TaskIds : tasks[t].status = "Done" => tasks[t].progress = 100

\* C24: a task write that changes status to In Progress without setting
\* progress stores progress 25 if it was 0 and leaves it as it was otherwise
\* (a task moved from Done to In Progress keeps 100); a task created with
\* status In Progress is stored with progress 25.
C24_InProgressDefault ==
    [][/\ (resp'.op = "updateTask" /\ resp'.code = "OK") =>
            \A t \in TaskIds :
               \A body \in TaskUpdateBodies({Owner}, Opt(TaskStatuses), Opt(ProgressInputs)) :
                  (/\ body.status = Some("In Progress") /\ ~IsSet(body.progress)
                   /\ tasks[t].status # "In Progress"
                   /\ updateTask(Owner, t, body))
                     => /\ tasks'[t].status = "In Progress"
                        /\ tasks'[t].progress =
                              IF tasks[t].progress = 0 THEN 25 ELSE tasks[t].progress
       /\ (resp'.op = "createTask" /\ resp'.code = "OK") =>
            \A body \in TaskCreateBodies({Owner}, Opt(TaskStatuses)) :
               (body.status = Some("In Progress") /\ createTask(Owner, body))
                  => /\ tasks'[Len(tasks')].status = "In Progress"
                     /\ tasks'[Len(tasks')].progress = 25]_vars

\* a Done task was moved to In Progress and kept its progress of 100
C24_Witness ==
    /\ resp.op = "updateTask" /\ resp.code = "OK"
    /\ tasks[resp.tid].status = "In Progress"
    /\ tasks[resp.tid].progress = 100
    /\ IsSet(tasks[resp.tid].completedAt)
    /\ resp.hookIn = Some(100)

\* a task was created with status In Progress and got progress 25
C24_CreatedWitness ==
    /\ resp.op = "createTask" /\ resp.code = "OK"
    /\ tasks[resp.tid].status = "In Progress"
    /\ tasks[resp.tid].progress = 25

\* protect lets a request with this issued token through
Passes(t) == protect(bearer(t), TRUE).next = 1

\* the account an address belongs to has isActive false
InactiveAccount(e) ==
    /\ IsSet(findOneByEmail(e))
    /\ ~isActiveUser(Val(findOneByEmail(e)))

\* C25: for a user whose isActive is false, login returns 401 and issues no
\* token whatever password is supplied, and every request to a protected
\* route with a token issued earlier for that user and not yet expired is
\* answered 401 without the controller being invoked.
C25_InactiveLockedOut ==
    [][/\ \A body \in LoginBodies :
             (/\ IsSet(body.email) /\ IsSet(body.password)
              /\ InactiveAccount(Val(body.email))
              /\ login(body))
                => /\ resp'.status = 401
                   /\ sessions'.issued = sessions.issued
       /\ \A t \in sessions.issued :
             (/\ sessions.now < t.exp /\ ~isActiveUser(t.id)
              /\ authed' # authed
              /\ authed'.header = bearer(t))
                => /\ authed'.out.next = 0
                   /\ Len(authed'.out.sent) = 1
                   /\ authed'.out.sent[1].status = 401
                   /\ resp' = resp /\ sessions' = sessions]_vars

\* u1 logged in and was deactivated; its unexpired token was refused by
\* protect and its next login, with the right password, was refused
C25_Witness ==
    /\ resp.op = "login" /\ resp.user = "u1"
    /\ resp.status = 401 /\ resp.code = "ACCOUNT_DEACTIVATED"
    /\ authed # NoRequest
    /\ \E t \in sessions.issued :
          /\ sessions.now < t.exp /\ authed.header = bearer(t)
          /\ authed.out.next = 0 /\ authed.out.sent[1].status = 401

\* C30: logout and changePassword change no server-side token state: a
\* token that passed protect before a successful logout or changePassword
\* still passes protect afterwards (until it expires or the user is
\* deactivated).
C30_TokensSurvive ==
    [][\A header \in SessionHeaders :
          (\/ /\ behindProtect("POST /auth/logout", header, logout(reqUser(header)))
              /\ resp'.op = "logout" /\ resp'.status = 200
           \/ /\ \E body \in ChangePasswordBodies :
                    behindProtect("PUT /auth/change-password", header,
                                  changePassword(reqUser(header), body))
              /\ resp'.op = "changePassword" /\ resp'.status = 200)
             => \A t \in sessions.issued : Passes(t) => Passes(t)']_vars

\* the password of u1 was changed, and afterwards a token issued before the
\* change got through protect to a controller
C30_Witness ==
    /\ sessions.password["u1"] = "pw2"
    /\ resp.op = "getMe" /\ resp.status = 200
    /\ authed # NoRequest /\ authed.out.next = 1
    /\ \E t \in sessions.issued : authed.header = bearer(t) /\ t.exp = TokenLife

\* the operations that answer with a list of tasks
ListOps == {"getTasks", "getMyTasks", "getOverdueTasks", "getProject"}

\* C28: an archived task is never returned by a list operation: getTasks
\* under every combination of filters, getMyTasks, getOverdueTasks and the
\* task list of getProject.
C28_NoArchivedListed ==
    resp.op \in ListOps => \A i \in resp.tasks : ~tasks[i].isArchived

\* getMyTasks returned a task of the requester and left out an archived one
\* that is assigned to the same user
C28_Witness ==
    /\ resp.op = "getMyTasks" /\ resp.tasks # {}
    /\ \E i \in TaskIds :
          /\ tasks[i].isArchived /\ tasks[i].assignedTo = resp.user
          /\ i \notin resp.tasks

\* C27: archival is irreversible: once a project or a task is stored with
\* isArchived = true, no request (updateProject, updateTask, addTeamMember,
\* removeTeamMember, addComment, createTask, deleteTask, deleteProject)
\* sets it back to false.
C27_ArchivedForGood ==
    [][/\ \A p \in ProjectIds : projects[p].isArchived => projects'[p].isArchived
       /\ \A t \in TaskIds : tasks[t].isArchived => tasks'[t].isArchived]_vars

\* an updateTask that carried isArchived: false was accepted on an archived
\* task, and the task is still archived
C27_Witness ==
    /\ resp.op = "updateTask" /\ resp.code = "OK"
    /\ "isArchived" \in resp.ignored
    /\ tasks[resp.tid].isArchived

\* the same for updateProject on an archived project
C27_ProjectWitness ==
    /\ resp.op = "updateProject" /\ resp.code = "OK"
    /\ "isArchived" \in resp.ignored
    /\ projects[resp.pid].isArchived

\* two addresses are the same when compared without regard to case
SameAddress(a, b) == a.name = b.name /\ a.padded = b.padded

\* the address of the signup in slot r, as the request wrote it
SignupEmail(r) == Val(Val(signups[r].body).email)

\* the signup in slot r was answered 201 with a token
SignedUp(r) ==
    signups[r].pc = "done" /\ signups[r].status = 201 /\ signups[r].token

\* C29: at most one stored user exists per email address compared without
\* regard to case, even when signups for the same address in any letter
\* case arrive at the same time; at most one of them is answered 201 with a
\* token.
C29_OneAccountPerEmail ==
    /\ \A a \in accounts : \A b \in accounts : SameAddress(a, b) => a = b
    /\ \A r1 \in Requests : \A r2 \in Requests :
          (r1 # r2 /\ SignedUp(r1) /\ SignedUp(r2))
             => SignupEmail(r1).name # SignupEmail(r2).name

\* two signups for one address, in different letter case, both got past
\* User.findByEmail: one created the account, the other was refused by the
\* unique index
C29_Witness ==
    /\ SignedUp(1)
    /\ signups[2].pc = "done" /\ signups[2].code = "DUPLICATE_EMAIL"
    /\ SignupEmail(1).name = SignupEmail(2).name
    /\ SignupEmail(1).upper # SignupEmail(2).upper
    /\ Cardinality({a \in accounts : a.name = SignupEmail(1).name}) = 1

\* the statuses of a request that is refused
RefusedStatuses == {400, 403, 404}

\* C26: every project, task and auth request that is answered 400, 403 or
\* 404 leaves every stored user, project and task exactly as it was before
\* the request.
C26_RefusedChangesNothing ==
    [][resp'.status \in RefusedStatuses =>
          /\ projects' = projects /\ tasks' = tasks
          /\ accounts' = accounts /\ sessions' = sessions]_vars

\* an updateTask with a progress out of range was refused on a stored task
C26_Witness ==
    /\ resp.op = "updateTask" /\ resp.status = 400
    /\ resp.code = "VALIDATION_ERROR"
    /\ resp.tid \in TaskIds

\* a changePassword with a wrong current password was refused after the
\* password had been changed once
C26_AuthWitness ==
    /\ resp.op = "changePassword" /\ resp.status = 400
    /\ resp.code = "INVALID_CURRENT_PASSWORD"
    /\ sessions.password["u1"] = "pw2"

====
